---------------------------- MODULE Spec2Model ----------------------------
(***************************************************************************)
(* ArchDrop: the single-session claim state machine, the authentication    *)
(* helpers, and the send-side HTTP handlers (manifest, chunk, completion)  *)
(* with the dedup set, the progress tracker, the file handle registry and  *)
(* the buffer pool they touch.                                             *)
(*                                                                         *)
(* Handlers run in slots; one step of a slot is one statement group of the *)
(* handler between two points where another worker thread may interleave.  *)
(***************************************************************************)
EXTENDS Integers, Sequences, FiniteSets, TLC

(***************************************************************************)
(* Bounds of the model.                                                    *)
(***************************************************************************)
\* config.chunk_size scaled down to bytes that can be enumerated
ChunkSize == 2
\* largest chunk index a request may carry (one past the last chunk of the file)
MaxChunkIdx == 2
\* config.concurrency scaled down: the number of buffers the pool starts with
PoolSize == 1
\* response bodies that may be alive (sent but not yet dropped) at one time
MaxBodies == 1

\* cap on ProgressTracker.completed_chunks (increments made)
MaxCompleted == 6
\* largest total given to ProgressTracker::set_total
MaxTotal == 3

\* buffers a direct caller of the pool may hold at one time
MaxHeld == 2

\* capacity of a buffer allocated outside the pool (Vec::with_capacity(2))
SmallCap == 2

\* width of the AEAD counter: u32, scaled down to CounterBits bits
CounterBits == 2

\* times one chunk is served to the same client
MaxServes == 2

\* longest file name given to the path validation, in characters
MaxNameLen == 4

\* cap on ReceiveState.chunks_received (chunk posts accepted)
MaxReceived == 4

\* SendAppState handles alive at one time
MaxClones == 3

\* files in a manifest given to the chunk counting
MaxFiles == 2

\* sessions created in the store (start_server creates one)
MaxSessions == 1

\* TRANSPORT_STARTUP_TIMEOUT, in seconds
StartupTimeout == 15
\* the duration and the sleep of the test startup_timeout_wrapper_expires, in ms
TestTimeout == 5
TestSleep == 25

\* AES-GCM tag appended by encrypt_in_place
TagLen == 16

(***************************************************************************)
(* Inputs.                                                                 *)
(***************************************************************************)
SessionToken == "tok"
WrongToken == "bad"
Tokens == {SessionToken, WrongToken}

\* client ids are strings, modelled as sequences of characters
ClientA == <<"a">>
ClientB == <<"b">>
ClientIds == {<< >>, <<" ">>, ClientA, ClientB}
NoClient == <<"-">>
\* the (token, client id) pairs a call may carry: every client id with the session
\* token, and a wrong token (with a client id that may or may not be the claimer)
Creds == {<<SessionToken, c>> : c \in ClientIds} \cup {<<WrongToken, ClientA>>}

\* manifests given to the chunk counting: up to MaxFiles files, each empty, shorter
\* than a chunk, a whole number of chunks or with a shorter last chunk
Sizes == 0 .. (2 * ChunkSize + 1)
Manifests == UNION {[1 .. n -> Sizes] : n \in 0 .. MaxFiles}
\* TransferConfig.chunk_size: never 0
ChunkSizes == 1 .. (ChunkSize + 1)

\* a file with more chunks than the counter has values, and the chunk indices
\* (usize) a request for it may carry
BigFileSize == (2 ^ CounterBits + 3) * ChunkSize - 1
BigChunkIdxs == 0 .. (2 ^ CounterBits + 3)
\* the file's nonce base: 8 bytes
NonceBase == <<7, 6, 5, 4, 3, 2, 1, 0>>

\* the session key, and another key
SessionKey == 1
OtherKey == 2
Keys == {SessionKey, OtherKey}

\* plaintexts of up to 2 bytes, and counters that differ in one or two nonce bytes
Plaintexts == UNION {[1 .. n -> {0, 200}] : n \in 0 .. 2}
Counters == {0, 1, 255, 256}

\* file names: strings over a letter, the dot, both separators and the NUL character
NameChars == {"a", ".", "/", "\\", "NUL"}
Names == UNION {[1 .. n -> NameChars] : n \in 0 .. MaxNameLen}

\* the file a client uploads: two chunks and a shorter third one
RxFileSize == 2 * ChunkSize + 1
RxFileData == [i \in 1 .. RxFileSize |-> (37 * i) % 256]
RxChunkIdxs == 0 .. 2
\* names a client may give the file in its manifest
RxNames == {<<"a">>, <<"a", "/", "a">>, <<".", ".", "/", "a">>, <<"/", "a">>,
            <<"a", "NUL">>, << >>}

\* the wrapped future completes after Never ticks when it does not complete
Never == -1
Durations == {TestTimeout, StartupTimeout}
Delays == (0 .. (StartupTimeout + 1)) \cup {TestSleep, Never}

\* the manifest: sizes of the files, by index (index 0 is FileSizes[1])
\* tokens of the session store: create_session hands out 1, 2, ..; the last
\* one is never created
StoreTokens == 1 .. (MaxSessions + 1)
FilePaths == {"/srv/a.bin", "/srv/b.bin"}
Callers == {"d1", "d2"}

FileSizes == <<ChunkSize + 1>>
NumFiles == Len(FileSizes)
FileIdxs == 0 .. (NumFiles - 1)
\* the (file_index, chunk_index) a chunk request may carry: every chunk index up to
\* MaxChunkIdx of every file, and a file index past the manifest
ReqPairs == (FileIdxs \X (0 .. MaxChunkIdx)) \cup {<<NumFiles, 0>>}

AllSlots == {"h1", "h2"}
SeqSlots == {"h1"}

VARIABLES
    sessState,      \* SessionImpl claim state: "Unclaimed" | "Claimed" | "Completed"
    sessOwner,      \* the client id the session is bound to (NoClient while Unclaimed)
    sent_chunks,    \* SendAppStateInner.sent_chunks: set of <<file_index, chunk_index>>
    chunks_sent,    \* SendAppStateInner.chunks_sent
    file_handles,   \* SendAppStateInner.file_handles: file index -> the handle stored for it,
                    \* named by the request that opened it
    progInit,       \* progress tracker: init_files has run
    progCount,      \* progress tracker: per-file increment count
    progDone,       \* progress tracker: per-file Complete flag
    buffers,        \* BufferPool.buffers: sequence of [len, cap]
    bodies,         \* response bodies alive: sequence of PooledVec data [len, cap]
    pc,             \* per slot: the handler's position ("done": it has answered)
    req,            \* per slot: the call or request being handled (with the handler's
                    \* locals is_retry and buffer), kept until the next one
    res,            \* per slot: the value returned or the HTTP response sent
    everActive,     \* history: client ids that ever satisfied is_active / were let through
    claimWon,       \* history: client ids for which claim returned true
    raced,          \* history: a claim won while a claim of another client was pending
    requested,      \* history: chunk pairs requested by the active client
    total_chunks,       \* ProgressTracker.total_chunks
    completed_chunks,   \* ProgressTracker.completed_chunks
    progress,           \* value carried by the watch channel, as <<numerator, denominator>>
    completeCalled,     \* history: ProgressTracker::complete has been called
    held,               \* buffers taken from the pool by a direct caller, not yet wrapped
    discarded,          \* history: the wrapper of an undersized buffer was dropped
    server,             \* the axum_server task: "serving" | "stopped"
    dropped,            \* slots whose request was in flight when the server stopped
    call,               \* the last call of a function made on its own: [fn, args, ret]
    noncesUsed,         \* history: [cj, start, nonce] of every chunk encrypted by process_chunk
    servedBodies,       \* history: [cj, n, fresh, ct] of every chunk body process_chunk returned
    rx,                 \* ReceiveState: manifest, counters, files on disk, session, last response
    clones,             \* SendAppState handles (each an Arc pointer) and the inner states they point to
    timer,              \* a with_timeout call: duration, the future's completion time, clock, result
    sessions,           \* SessionStore.sessions: the HashMap token -> SessionData [file_path, used]
    mutex,              \* the tokio Mutex around the HashMap: "free" or the call that holds it
    dl,                 \* per caller of the store: the call or download request, its position, its result
    dlHist              \* history: Some(..) results per token; tokens answered 500; tokens answered 200

sessVars == <<sessState, sessOwner>>
sendVars == <<sent_chunks, chunks_sent, file_handles>>
progVars == <<progInit, progCount, progDone>>
poolVars == <<buffers, bodies>>
slotVars == <<pc, req, res>>
histVars == <<claimWon, raced, requested>>
trackerVars == <<total_chunks, completed_chunks, progress, completeCalled>>
\* state of the components the session and the handlers above do not touch
serverVars == <<server, dropped>>
unitVars == <<call, noncesUsed, servedBodies, rx, clones, timer>>
\* the single-download server: the session store and its callers
storeVars == <<sessions, mutex, dl, dlHist>>
\* the variables above but one
butCall == <<noncesUsed, servedBodies, rx, clones, timer>>
butNonces == <<call, servedBodies, rx, clones, timer>>
butServed == <<call, noncesUsed, rx, clones, timer>>
butRx == <<call, noncesUsed, servedBodies, clones, timer>>
butClones == <<call, noncesUsed, servedBodies, rx, timer>>
butTimer == <<call, noncesUsed, servedBodies, rx, clones>>
restVars == <<trackerVars, held, discarded, serverVars, unitVars, storeVars>>
vars == <<sessState, sessOwner, sent_chunks, chunks_sent, file_handles, progInit,
          progCount, progDone, buffers, bodies, pc, req, res, everActive,
          claimWon, raced, requested, total_chunks, completed_chunks, progress,
          completeCalled, held, discarded, server, dropped, call, noncesUsed,
          servedBodies, rx, clones, timer, sessions, mutex, dl, dlHist>>

(***************************************************************************)
(* str::trim and str::is_empty on client ids.                              *)
(***************************************************************************)
IsWhitespace(ch) == ch = " "

RECURSIVE TrimStart(_)
TrimStart(s) ==
    IF Len(s) = 0 THEN s
    ELSE IF IsWhitespace(Head(s)) THEN TrimStart(Tail(s)) ELSE s

RECURSIVE TrimEnd(_)
TrimEnd(s) ==
    IF Len(s) = 0 THEN s
    ELSE IF IsWhitespace(s[Len(s)]) THEN TrimEnd(SubSeq(s, 1, Len(s) - 1)) ELSE s

trim(s) == TrimEnd(TrimStart(s))

is_empty(s) == Len(s) = 0

(***************************************************************************)
(* Session core (SessionImpl).  Each operation is one critical section.    *)
(***************************************************************************)
SessionImpl_is_active(tok, cid) ==
    /\ tok = SessionToken
    /\ sessState \in {"Claimed", "Completed"}
    /\ sessOwner = cid

SessionImpl_is_completed == sessState = "Completed"

\* a claim that is not idempotent: only the first call succeeds
SessionImpl_claim_Once(tok, cid) ==
    IF tok # SessionToken \/ is_empty(trim(cid)) \/ sessState # "Unclaimed"
    THEN [ok |-> FALSE, state |-> sessState, owner |-> sessOwner]
    ELSE [ok |-> TRUE, state |-> "Claimed", owner |-> cid]

\* a claim that stays idempotent for the owner after completion
SessionImpl_claim_AfterComplete(tok, cid) ==
    IF tok # SessionToken \/ is_empty(trim(cid))
    THEN [ok |-> FALSE, state |-> sessState, owner |-> sessOwner]
    ELSE IF sessState = "Unclaimed"
    THEN [ok |-> TRUE, state |-> "Claimed", owner |-> cid]
    ELSE [ok |-> sessOwner = cid, state |-> sessState, owner |-> sessOwner]

\* the result of claim: the returned flag and the state the call leaves
SessionImpl_claim(tok, cid) ==
    IF tok # SessionToken \/ is_empty(trim(cid))
    THEN [ok |-> FALSE, state |-> sessState, owner |-> sessOwner]
    ELSE IF sessState = "Unclaimed"
    THEN [ok |-> TRUE, state |-> "Claimed", owner |-> cid]
    ELSE IF sessState = "Claimed" /\ sessOwner = cid
    THEN [ok |-> TRUE, state |-> sessState, owner |-> sessOwner]
    ELSE [ok |-> FALSE, state |-> sessState, owner |-> sessOwner]

\* a complete that succeeds only on a Claimed session
SessionImpl_complete_Once(tok, cid) ==
    IF SessionImpl_is_active(tok, cid) /\ sessState = "Claimed"
    THEN [ok |-> TRUE, state |-> "Completed", owner |-> sessOwner]
    ELSE [ok |-> FALSE, state |-> sessState, owner |-> sessOwner]

\* the result of complete: requires active, then Completed (idempotent)
SessionImpl_complete(tok, cid) ==
    IF SessionImpl_is_active(tok, cid)
    THEN [ok |-> TRUE, state |-> "Completed", owner |-> sessOwner]
    ELSE [ok |-> FALSE, state |-> sessState, owner |-> sessOwner]

(***************************************************************************)
(* impl Session for SendSession: delegation to the core.                   *)
(***************************************************************************)
\* the delegation passes the session's own token: self.core.claim(self.token(), ..)
SendSession_claim_OwnToken(tok, cid) == SessionImpl_claim(SessionToken, cid)

SendSession_claim(tok, cid) == SessionImpl_claim(tok, cid)

\* the delegation passes the session's own token: self.core.is_active(self.token(), ..)
SendSession_is_active_OwnToken(tok, cid) == SessionImpl_is_active(SessionToken, cid)

SendSession_is_active(tok, cid) == SessionImpl_is_active(tok, cid)

\* the delegation calls the wrong core method: self.core.claim(token, client_id)
SendSession_complete_AsClaim(tok, cid) == SessionImpl_claim(tok, cid)

SendSession_complete(tok, cid) == SessionImpl_complete(tok, cid)

(***************************************************************************)
(* AppError and its HTTP status.                                           *)
(***************************************************************************)
\* impl From<anyhow::Error> for AppError (#[from] on Internal)
FromAnyhow == "Internal"

StatusCode(kind) ==
    CASE kind = "Ok" -> 200
      [] kind = "Unauthorized" -> 401
      [] kind = "NotFound" -> 404
      [] kind = "BadRequest" -> 400
      [] kind = "Conflict" -> 409
      [] kind = "InsufficientStorage" -> 507
      [] kind = "Internal" -> 500

(***************************************************************************)
(* server/auth.rs                                                          *)
(***************************************************************************)
\* the is_active check is left out
require_active_session_NoCheck(tok, cid) ==
    IF is_empty(trim(cid)) THEN FromAnyhow ELSE "Ok"

require_active_session(tok, cid) ==
    IF is_empty(trim(cid)) THEN FromAnyhow
    ELSE IF ~SendSession_is_active(tok, cid) THEN FromAnyhow
    ELSE "Ok"

\* the result of session.claim is not looked at
claim_or_validate_session_IgnoreResult(tok, cid) ==
    IF is_empty(trim(cid))
    THEN [res |-> FromAnyhow, state |-> sessState, owner |-> sessOwner]
    ELSE LET c == SendSession_claim(tok, cid)
         IN  [res |-> "Ok", state |-> c.state, owner |-> c.owner]

\* the error kind (or "Ok") and the session state the call leaves
claim_or_validate_session(tok, cid) ==
    IF is_empty(trim(cid))
    THEN [res |-> FromAnyhow, state |-> sessState, owner |-> sessOwner]
    ELSE LET c == SendSession_claim(tok, cid)
         IN  [res |-> IF c.ok THEN "Ok" ELSE FromAnyhow,
              state |-> c.state, owner |-> c.owner]


(***************************************************************************)
(* Manifest and chunk arithmetic.                                          *)
(***************************************************************************)
\* the bytes of file 0 on disk
FileData == [i \in 1 .. FileSizes[1] |-> (37 * i) % 256]

\* SendAppState::get_file: None (here -1) when the index is out of bounds
get_file(i) == IF i \in FileIdxs THEN FileSizes[i + 1] ELSE -1

Min(a, b) == IF a <= b THEN a ELSE b

\* process_chunk: let start = chunk_index as u64 * chunk_size
chunk_start(chunk_index, chunk_size) == chunk_index * chunk_size

\* the end of a chunk taken as start + chunk_size
chunk_end_NoMin(start, chunk_size, file_size) == start + chunk_size

\* process_chunk: let end = std::cmp::min(start + chunk_size, file_size)
chunk_end(start, chunk_size, file_size) == Min(start + chunk_size, file_size)

\* process_chunk up to chunk_len: Err at the bounds check, or the slice to read
chunk_slice(chunk_index, chunk_size, file_size) ==
    LET start == chunk_start(chunk_index, chunk_size)
        end == chunk_end(start, chunk_size, file_size)
    IN  IF start >= file_size
        THEN [ok |-> FALSE, start |-> start, chunk_len |-> 0]
        ELSE [ok |-> TRUE, start |-> start, chunk_len |-> end - start]

\* the quotient is rounded down
div_ceil_Floor(a, b) == a \div b

\* u64::div_ceil
div_ceil(a, b) == (a + b - 1) \div b

\* manifest_handler: the per-file totals handed to progress.init_files
init_files_totals(files, cs) == [i \in 1 .. Len(files) |-> div_ceil(files[i], cs)]

\* Manifest::total_chunks(chunk_size): the sum of the files' chunk counts
RECURSIVE Manifest_total_chunks(_, _)
Manifest_total_chunks(files, cs) ==
    IF Len(files) = 0 THEN 0
    ELSE div_ceil(files[Len(files)], cs)
             + Manifest_total_chunks(SubSeq(files, 1, Len(files) - 1), cs)

(***************************************************************************)
(* utils/security.rs: path validation (std::path on Unix).                 *)
(***************************************************************************)
\* str::contains(char)
contains(str, ch) == \E i \in 1 .. Len(str) : str[i] = ch

\* the pieces of str between the occurrences of sep
RECURSIVE Split(_, _)
Split(str, sep) ==
    IF ~contains(str, sep) THEN <<str>>
    ELSE LET i == CHOOSE k \in 1 .. Len(str) :
                      str[k] = sep /\ \A m \in 1 .. (k - 1) : str[m] # sep
         IN  <<SubSeq(str, 1, i - 1)>> \o Split(SubSeq(str, i + 1, Len(str)), sep)

\* ".." is taken for an ordinary name
Component_NoParentDir(piece, leading) ==
    IF piece = << >> THEN "Skip"
    ELSE IF piece = <<".">> THEN (IF leading THEN "CurDir" ELSE "Skip")
    ELSE "Normal"

\* the Component a piece of the path parses to: empty pieces are skipped, and so
\* is "." unless it begins a relative path
Component(piece, leading) ==
    IF piece = << >> THEN "Skip"
    ELSE IF piece = <<".">> THEN (IF leading THEN "CurDir" ELSE "Skip")
    ELSE IF piece = <<".", ".">> THEN "ParentDir"
    ELSE "Normal"

\* Path::new(path_str).components()
components(path_str) ==
    LET has_root == Len(path_str) > 0 /\ path_str[1] = "/"
        pieces == Split(path_str, "/")
        kinds == [i \in 1 .. Len(pieces) |-> Component(pieces[i], i = 1 /\ ~has_root)]
    IN  (IF has_root THEN <<"RootDir">> ELSE << >>)
            \o SelectSeq(kinds, LAMBDA k : k # "Skip")

validate_path_components(path_str) ==
    IF Len(path_str) = 0 THEN "Empty"
    ELSE IF contains(path_str, "NUL") THEN "NullByte"
    ELSE LET comps == components(path_str)
             bad == {i \in 1 .. Len(comps) : comps[i] \in {"ParentDir", "RootDir"}}
             first == CHOOSE i \in bad : \A j \in bad : i <= j
         IN  IF bad = {} THEN "Ok"
             ELSE IF comps[first] = "ParentDir" THEN "ContainsParentDir"
             ELSE "AbsolutePath"

validate_path(path) == validate_path_components(path)

validate_filename(filename) ==
    IF validate_path_components(filename) # "Ok"
    THEN validate_path_components(filename)
    ELSE IF contains(filename, "/") \/ contains(filename, "\\")
    THEN "ContainsDirectorySeparator"
    ELSE "Ok"

(***************************************************************************)
(* Nonces.                                                                 *)
(***************************************************************************)
\* chunk_index as u32: the low bits of the usize
as_u32(n) == n % (2 ^ CounterBits)

\* u32::to_be_bytes
to_be_bytes(c) ==
    <<(c \div 16777216) % 256, (c \div 65536) % 256, (c \div 256) % 256, c % 256>>

\* Nonce::with_counter: the 8-byte base followed by the big-endian counter
with_counter(base, counter) == base \o to_be_bytes(counter)

(***************************************************************************)
(* AES-256-GCM, idealised: a keystream cipher whose tag verifies exactly   *)
(* when key, nonce and ciphertext are those of the encryption.             *)
(***************************************************************************)
keystream(key, nonce, i) == (97 * key + 31 * nonce[Len(nonce)] + 7 * i) % 256

Tag(key, nonce, body) == <<key, nonce, body>>

\* Aead::encrypt: ciphertext body and tag
aead_encrypt(key, nonce, pt) ==
    LET body == [i \in 1 .. Len(pt) |-> (pt[i] + keystream(key, nonce, i)) % 256]
    IN  [body |-> body, tag |-> Tag(key, nonce, body)]

\* the tag is not verified
aead_decrypt_NoTagCheck(key, nonce, ct) ==
    [ok |-> TRUE,
     data |-> [i \in 1 .. Len(ct.body) |->
                   (ct.body[i] + 256 - keystream(key, nonce, i)) % 256]]

\* Aead::decrypt: Err when the tag does not verify
aead_decrypt(key, nonce, ct) ==
    IF ct.tag = Tag(key, nonce, ct.body)
    THEN [ok |-> TRUE,
          data |-> [i \in 1 .. Len(ct.body) |->
                        (ct.body[i] + 256 - keystream(key, nonce, i)) % 256]]
    ELSE [ok |-> FALSE, data |-> << >>]

encrypt_chunk_at_position(key, nonce_base, plaintext, counter) ==
    aead_encrypt(key, with_counter(nonce_base, counter), plaintext)

decrypt_chunk_at_position(key, nonce_base, encrypted_data, counter) ==
    aead_decrypt(key, with_counter(nonce_base, counter), encrypted_data)

(***************************************************************************)
(* SendAppState handles: #[derive(Clone)] over inner: Arc<SendAppStateInner> *)
(***************************************************************************)
\* SendAppState::new: one handle pointing to a new inner state
ClonesInit ==
    [handles |-> <<1>>,
     heap |-> <<[total_chunks |-> 3, chunks_sent |-> 0,
                 sent_chunks |-> {}]>>]

\* the clone gets an inner state of its own, a copy of the original's
SendAppState_clone_Deep(c, h) ==
    [handles |-> Append(c.handles, Len(c.heap) + 1),
     heap |-> Append(c.heap, c.heap[c.handles[h]])]

\* SendAppState::clone: Arc::clone of inner, the new handle points to the same state
SendAppState_clone(c, h) ==
    [handles |-> Append(c.handles, c.handles[h]), heap |-> c.heap]

\* Deref: the inner state a handle points to
deref(c, h) == c.heap[c.handles[h]]

(***************************************************************************)
(* transport: with_timeout over tokio::time::timeout.                      *)
(***************************************************************************)
NoTimer == [state |-> "unset", duration |-> 0, done_at |-> Never, clock |-> 0]

\* the wrapped future is ready
Ready(t) == t.done_at # Never /\ t.clock >= t.done_at

\* the deadline has passed
Elapsed(t) == t.clock >= t.duration

\* the deadline is never looked at
timeout_poll_NoDeadline(t) ==
    IF Ready(t) THEN [t EXCEPT !.state = "Ok"] ELSE t

\* Timeout::poll: the wrapped future is polled first, then the delay
timeout_poll(t) ==
    IF Ready(t) THEN [t EXCEPT !.state = "Ok"]
    ELSE IF Elapsed(t) THEN [t EXCEPT !.state = "Elapsed"]
    ELSE t

(***************************************************************************)
(* ReceiveState and its chunk pipeline.                                    *)
(***************************************************************************)
RxInit ==
    [has_manifest |-> FALSE, manifest |-> << >>, total_chunks |-> 0,
     chunks_received |-> 0, progress |-> <<0, 0>>, disk |-> << >>,
     session |-> "Claimed", resp |-> "none", req |-> << >>, order |-> << >>]

\* set_manifest: every name must pass validate_path; total_chunks from the sizes
set_manifest(r, m) ==
    IF \E i \in 1 .. Len(m) : validate_path(m[i].name) # "Ok"
    THEN [r EXCEPT !.resp = "BadRequest", !.req = <<"manifest">>]
    ELSE [r EXCEPT !.has_manifest = TRUE,
                   !.manifest = m,
                   !.total_chunks =
                       Manifest_total_chunks([i \in 1 .. Len(m) |-> m[i].size], ChunkSize),
                   !.disk = [i \in 1 .. Len(m) |-> << >>],
                   !.resp = "Ok",
                   !.req = <<"manifest">>]

\* the file after a positioned write: pre-extended to size on first use, the
\* bytes at offset replaced, longer when the write ends past the end
write_at(file, size, offset, data) ==
    LET n == IF Len(file) = 0 THEN size ELSE Len(file)
        m == IF offset + Len(data) > n THEN offset + Len(data) ELSE n
    IN  [i \in 1 .. m |->
            IF i > offset /\ i <= offset + Len(data) THEN data[i - offset]
            ELSE IF i <= Len(file) THEN file[i]
            ELSE 0]

\* the offset is the number of chunks that arrived before
write_offset_Append(r, cj) == Len(r.order) * ChunkSize

\* offset = chunk_j * chunk_size
write_offset(r, cj) == cj * ChunkSize

\* the counter is advanced before the chunk is authenticated
write_chunk_CountFirst(r, fi, cj, ct) ==
    LET dec == decrypt_chunk_at_position(SessionKey, NonceBase, ct, cj)
        counted == [r EXCEPT !.chunks_received = @ + 1,
                             !.progress = <<r.chunks_received + 1, r.total_chunks>>]
    IN  IF ~dec.ok
        THEN [counted EXCEPT !.resp = "BadRequest", !.req = <<"chunk", fi, cj, FALSE>>]
        ELSE [counted EXCEPT
                !.disk[fi + 1] = write_at(r.disk[fi + 1], r.manifest[fi + 1].size,
                                          write_offset(r, cj), dec.data),
                !.order = Append(@, <<fi, cj>>),
                !.resp = "Ok",
                !.req = <<"chunk", fi, cj, TRUE>>]

\* write_chunk: decrypt with counter = chunk_j, write at the offset, advance
\* chunks_received and the progress
write_chunk(r, fi, cj, ct) ==
    LET dec == decrypt_chunk_at_position(SessionKey, NonceBase, ct, cj)
    IN  IF ~dec.ok
        THEN [r EXCEPT !.resp = "BadRequest", !.req = <<"chunk", fi, cj, FALSE>>]
        ELSE [r EXCEPT
                !.disk[fi + 1] = write_at(r.disk[fi + 1], r.manifest[fi + 1].size,
                                          write_offset(r, cj), dec.data),
                !.chunks_received = @ + 1,
                !.progress = <<r.chunks_received + 1, r.total_chunks>>,
                !.order = Append(@, <<fi, cj>>),
                !.resp = "Ok",
                !.req = <<"chunk", fi, cj, TRUE>>]

\* the session is completed whatever was received
complete_transfer_NoGate(r) ==
    [r EXCEPT !.session = "Completed", !.resp = "Ok", !.req = <<"complete">>]

\* complete_transfer: BadRequest("incomplete") unless all expected chunks were received
complete_transfer(r) ==
    IF r.chunks_received < r.total_chunks
    THEN [r EXCEPT !.resp = "BadRequest", !.req = <<"complete">>]
    ELSE [r EXCEPT !.session = "Completed", !.resp = "Ok", !.req = <<"complete">>]

\* what the uploading client sends for chunk k: the chunk's bytes encrypted
\* under the session key with counter k
SenderChunk(k) ==
    SubSeq(RxFileData, k * ChunkSize + 1, Min((k + 1) * ChunkSize, RxFileSize))

HonestCt(k) == encrypt_chunk_at_position(SessionKey, NonceBase, SenderChunk(k), k)

\* one bit of the first ciphertext byte flipped
Tamper(ct) ==
    [ct EXCEPT !.body[1] = IF @ % 2 = 0 THEN @ + 1 ELSE @ - 1]

(***************************************************************************)
(* The file handle registry: DashMap<usize, Arc<SendFileHandle>>.          *)
(***************************************************************************)
DashMap_new == [i \in {} |-> "h1"]

contains_key(map, k) == k \in DOMAIN map

\* VacantEntry::insert / DashMap::insert: the value stored under k is v
insert(map, k, v) == [i \in DOMAIN map \cup {k} |-> IF i = k THEN v ELSE map[i]]

\* TransferState::transfer_count
transfer_count == Cardinality(DOMAIN file_handles)

(***************************************************************************)
(* SendAppState dedup set and counters.                                    *)
(***************************************************************************)
\* the lookup key has its two indices swapped
has_chunk_been_sent_Swapped(fi, cj) == <<cj, fi>> \in sent_chunks

has_chunk_been_sent(fi, cj) == <<fi, cj>> \in sent_chunks

\* the returned bool is insert(..).is_some(): true when the pair was already there
mark_chunk_sent_IsSome(fi, cj) ==
    [newly |-> <<fi, cj>> \in sent_chunks, set |-> sent_chunks \cup {<<fi, cj>>}]

\* mark_chunk_sent: DashMap::insert(..).is_none(), and the set after it
mark_chunk_sent(fi, cj) ==
    [newly |-> <<fi, cj>> \notin sent_chunks, set |-> sent_chunks \cup {<<fi, cj>>}]

unique_chunks_sent == Cardinality(sent_chunks)

get_chunks_sent == chunks_sent

\* manifest.total_chunks(chunk_size): the chunks of the first n files
RECURSIVE ChunksOfFirst(_)
ChunksOfFirst(n) ==
    IF n = 0 THEN 0 ELSE ChunksOfFirst(n - 1) + div_ceil(FileSizes[n], ChunkSize)

\* SendAppState::get_total_chunks: the total the state was built with
get_total_chunks == ChunksOfFirst(NumFiles)

(***************************************************************************)
(* Progress tracker, per-file view used by the send handlers.              *)
(***************************************************************************)
\* the per-file counters after increment_file(i)
increment_file(i) == [progCount EXCEPT ![i] = @ + 1]

\* the per-file Complete flags after file_complete(i) for every manifest file
\* the loop stops one file short
mark_all_files_complete_SkipLast == [i \in FileIdxs |-> i < NumFiles - 1]

mark_all_files_complete == [i \in FileIdxs |-> TRUE]

(***************************************************************************)
(* Buffer pool.                                                            *)
(***************************************************************************)
\* SendAppState::new: buf_capacity = chunk_size + 16
buffer_capacity == ChunkSize + TagLen

NewBuffer == [len |-> 0, cap |-> buffer_capacity]

\* BufferPool::new
BufferPool_new == [i \in 1 .. PoolSize |-> NewBuffer]

\* BufferPool::take: the buffer handed out and the free list left
BufferPool_take ==
    IF Len(buffers) = 0
    THEN [buf |-> NewBuffer, rest |-> buffers]
    ELSE [buf |-> buffers[Len(buffers)], rest |-> SubSeq(buffers, 1, Len(buffers) - 1)]

\* the buffer is pushed back without buf.clear()
return_buf_NoClear(buf) ==
    IF buf.cap >= buffer_capacity THEN Append(buffers, buf) ELSE buffers

\* the buffer is pushed back whatever its capacity
return_buf_NoCheck(buf) == Append(buffers, [buf EXCEPT !.len = 0])

\* BufferPool::return_buf: the free list after the buffer came back
return_buf(buf) ==
    LET cleared == [buf EXCEPT !.len = 0]
    IN  IF cleared.cap >= buffer_capacity THEN Append(buffers, cleared) ELSE buffers

\* a Vec after n more bytes were written to it
Extend(buf, n) ==
    [len |-> buf.len + n,
     cap |-> IF buf.len + n > buf.cap THEN buf.len + n ELSE buf.cap]

RemoveAt(s, i) == SubSeq(s, 1, i - 1) \o SubSeq(s, i + 1, Len(s))

(***************************************************************************)
(* session.rs: SessionStore, a HashMap behind a tokio Mutex.               *)
(***************************************************************************)
SessionStore_new == [t \in {} |-> [file_path |-> "", used |-> FALSE]]

\* Uuid::new_v4: a token no session has
new_token(map) == Cardinality(DOMAIN map) + 1

\* create_session: sessions.insert(token, SessionData { file_path, used: false })
create_session(map, token, file_path) ==
    [t \in DOMAIN map \cup {token} |->
        IF t = token THEN [file_path |-> file_path, used |-> FALSE] ELSE map[t]]

\* a lock() that never waits
lock_ready_Always(m) == TRUE

\* sessions.lock().await is ready: the mutex is free
lock_ready(m) == m = "free"

\* the guard is dropped when the call returns
unlock(m, d) == IF m = d THEN "free" ELSE m

\* validate_and_mark_used: if let Some(session) = sessions.get_mut(token) { if !session.used
unused(map, token) == token \in DOMAIN map /\ ~map[token].used

\* a validation that leaves the flag as it is
mark_used_Skip(map, token) == map

\* validate_and_mark_used: session.used = true
mark_used(map, token) == [map EXCEPT ![token].used = TRUE]

\* is_valid: sessions.get(token).map(|session| !session.used).unwrap_or(false)
is_valid(map, token) == IF token \in DOMAIN map THEN ~map[token].used ELSE FALSE

NoDl == [op |-> "none", token |-> 0, pc |-> "idle", ret |-> "-", status |-> 0]

(***************************************************************************)
(* Initial state: SendAppState::new, Session::new, ProgressTracker::new.   *)
(***************************************************************************)
\* no buffer: the handler has not taken one, or has moved it away
NoBuffer == [len |-> 0, cap |-> 0]

NoReq == [op |-> "none", tok |-> "", cid |-> << >>, fi |-> 0, cj |-> 0, is_retry |-> FALSE,
          buffer |-> NoBuffer]

NoRes == [ok |-> FALSE, status |-> 0]
NoCall == [fn |-> "none", args |-> << >>, ret |-> << >>]

Init ==
    /\ sessState = "Unclaimed"
    /\ sessOwner = NoClient
    /\ sent_chunks = {}
    /\ chunks_sent = 0
    /\ file_handles = DashMap_new
    /\ progInit = FALSE
    /\ progCount = [i \in FileIdxs |-> 0]
    /\ progDone = [i \in FileIdxs |-> FALSE]
    /\ buffers = BufferPool_new
    /\ bodies = << >>
    /\ pc = [h \in AllSlots |-> "idle"]
    /\ req = [h \in AllSlots |-> NoReq]
    /\ res = [h \in AllSlots |-> NoRes]
    /\ everActive = {}
    /\ claimWon = {}
    /\ raced = FALSE
    /\ requested = {}
    /\ total_chunks = get_total_chunks
    /\ completed_chunks = 0
    /\ progress = <<0, 1>>
    /\ completeCalled = FALSE
    /\ held = << >>
    /\ discarded = FALSE
    /\ server = "serving"
    /\ dropped = {}
    /\ call = NoCall
    /\ noncesUsed = {}
    /\ servedBodies = {}
    /\ rx = RxInit
    /\ clones = ClonesInit
    /\ timer = NoTimer
    /\ sessions = SessionStore_new
    /\ mutex = "free"
    /\ dl = [d \in Callers |-> NoDl]
    /\ dlHist = [granted |-> [t \in StoreTokens |-> 0], failed |-> {}, served |-> {}]

(***************************************************************************)
(* Bookkeeping shared by the actions.                                      *)
(***************************************************************************)
\* client ids that are active, or that require_active_session lets through
ActiveNow ==
    {c \in ClientIds : \E tok \in Tokens :
        SendSession_is_active(tok, c) \/ require_active_session(tok, c) = "Ok"}

TrackActive == everActive' = everActive \cup ActiveNow'

\* the slot can take a new call: it is fresh or has answered the previous one
Free(h) == pc[h] \in {"idle", "done"}

\* no entry guard on the registry
EntryLocked_Never(fi) == FALSE

\* the locks the handler in slot h holds between two of its steps: the write
\* lock of its registry entry, from entry(file_index) to the end of
\* or_try_insert_with; the pool mutex is taken and released inside take and
\* return_buf
LocksHeld(h) ==
    IF pc[h] = "s_insert" THEN {<<"file_handles", req[h].fi>>} ELSE {}

\* some handler holds the write lock of the registry entry of file fi
EntryLocked(fi) == \E g \in AllSlots : <<"file_handles", fi>> \in LocksHeld(g)

Request(op, tok, cid, fi, cj) ==
    [op |-> op, tok |-> tok, cid |-> cid, fi |-> fi, cj |-> cj, is_retry |-> FALSE,
     buffer |-> NoBuffer]

\* the handler returns: Ok(..) or Err(AppError) turned into a response
Respond(h, r, kind) ==
    /\ pc' = [pc EXCEPT ![h] = "done"]
    /\ req' = [req EXCEPT ![h] = r]
    /\ res' = [res EXCEPT ![h] = [ok |-> (kind = "Ok"), status |-> StatusCode(kind)]]

\* a direct call returns a bool
Return(h, r, ok) ==
    /\ pc' = [pc EXCEPT ![h] = "done"]
    /\ req' = [req EXCEPT ![h] = r]
    /\ res' = [res EXCEPT ![h] = [ok |-> ok, status |-> 0]]

\* the handler goes on with request r
Goto(h, r, where) ==
    /\ pc' = [pc EXCEPT ![h] = where]
    /\ req' = [req EXCEPT ![h] = r]
    /\ res' = [res EXCEPT ![h] = NoRes]

WellFormed(tok, cid) == tok = SessionToken /\ ~is_empty(trim(cid))

\* another slot is about to claim for a different client id
RivalPending(h, cid) ==
    \E g \in AllSlots \ {h} :
        /\ pc[g] = "m_claim"
        /\ WellFormed(req[g].tok, req[g].cid)
        /\ req[g].cid # cid

TrackClaim(h, cid, ok) ==
    /\ claimWon' = IF ok THEN claimWon \cup {cid} ELSE claimWon
    /\ raced' = (raced \/ (ok /\ sessState = "Unclaimed" /\ RivalPending(h, cid)))

(***************************************************************************)
(* The Session trait called directly (tests/session_tests.rs).             *)
(***************************************************************************)
ApiClaim(h, tok, cid) ==
    /\ Free(h)
    /\ LET r == SendSession_claim(tok, cid)
       IN  /\ sessState' = r.state
           /\ sessOwner' = r.owner
           /\ Return(h, Request("claim", tok, cid, 0, 0), r.ok)
           /\ TrackClaim(h, cid, r.ok)
    /\ UNCHANGED <<sendVars, progVars, poolVars, requested>>
    /\ UNCHANGED restVars
    /\ TrackActive

ApiComplete(h, tok, cid) ==
    /\ Free(h)
    /\ LET r == SendSession_complete(tok, cid)
       IN  /\ sessState' = r.state
           /\ sessOwner' = r.owner
           /\ Return(h, Request("complete", tok, cid, 0, 0), r.ok)
    /\ UNCHANGED <<sendVars, progVars, poolVars, histVars>>
    /\ UNCHANGED restVars
    /\ TrackActive

(***************************************************************************)
(* The dedup set called directly (SendAppState / SendSession methods).     *)
(***************************************************************************)
\* a caller is about to run mark_chunk_sent(fi, cj)
MarkCall(h, fi, cj) ==
    /\ Free(h)
    /\ Goto(h, Request("mark", "", << >>, fi, cj), "k_mark")
    /\ UNCHANGED <<sessVars, sendVars, progVars, poolVars, histVars>>
    /\ UNCHANGED restVars
    /\ TrackActive

\* the insert, atomic under the map's shard lock, and the bool it returns
MarkExec(h) ==
    /\ pc[h] = "k_mark"
    /\ LET m == mark_chunk_sent(req[h].fi, req[h].cj)
       IN  /\ sent_chunks' = m.set
           /\ Return(h, req[h], m.newly)
    /\ UNCHANGED <<sessVars, chunks_sent, file_handles, progVars, poolVars, histVars>>
    /\ UNCHANGED restVars
    /\ TrackActive

\* has_chunk_been_sent(fi, cj): contains_key
ApiHas(h, fi, cj) ==
    /\ Free(h)
    /\ Return(h, Request("has", "", << >>, fi, cj), has_chunk_been_sent(fi, cj))
    /\ UNCHANGED <<sessVars, sendVars, progVars, poolVars, histVars>>
    /\ UNCHANGED restVars
    /\ TrackActive

(***************************************************************************)
(* ProgressTracker (server/progress.rs). A percentage is the exact         *)
(* quotient <<numerator, denominator>>.                                    *)
(***************************************************************************)
\* a <= b on percentages
Leq(a, b) == a[1] * b[2] <= b[1] * a[2]

\* f64::min
fmin(a, b) == IF Leq(a, b) THEN a ELSE b

\* the value is sent without the cap
update_progress_NoCap(completed, total) ==
    IF total > 0 THEN <<completed * 100, total>> ELSE <<0, 1>>

\* update_progress: the value sent on the watch channel
update_progress(completed, total) ==
    LET raw_progress == IF total > 0 THEN <<completed * 100, total>> ELSE <<0, 1>>
    IN  fmin(raw_progress, <<99, 1>>)

\* ProgressTracker::increment
TrackerIncrement ==
    /\ completed_chunks < MaxCompleted
    /\ LET completed == completed_chunks + 1
           total == total_chunks
       IN  /\ completed_chunks' = completed
           /\ progress' = update_progress(completed, total)
    /\ UNCHANGED <<total_chunks, completeCalled, held, discarded, serverVars, unitVars, storeVars>>
    /\ UNCHANGED <<sessVars, sendVars, progVars, poolVars, slotVars, histVars>>
    /\ TrackActive

\* ProgressTracker::set_total
TrackerSetTotal(total) ==
    /\ total_chunks' = total
    /\ UNCHANGED <<completed_chunks, progress, completeCalled, held, discarded, serverVars, unitVars, storeVars>>
    /\ UNCHANGED <<sessVars, sendVars, progVars, poolVars, slotVars, histVars>>
    /\ TrackActive

\* ProgressTracker::complete
TrackerComplete ==
    /\ progress' = <<100, 1>>
    /\ completeCalled' = TRUE
    /\ UNCHANGED <<total_chunks, completed_chunks, held, discarded, serverVars, unitVars, storeVars>>
    /\ UNCHANGED <<sessVars, sendVars, progVars, poolVars, slotVars, histVars>>
    /\ TrackActive

(***************************************************************************)
(* Functions called on their own.                                          *)
(***************************************************************************)
\* every variable but the record of the call
modelVars == <<sessVars, sendVars, progVars, poolVars, slotVars, histVars, everActive,
               trackerVars, held, discarded, serverVars, storeVars>>

\* the function was called with args and returned ret
Returned(fn, args, ret) == call' = [fn |-> fn, args |-> args, ret |-> ret]

\* start_send_server computes total_chunks of the manifest with the configured
\* chunk size, manifest_handler the per-file totals
CountChunks(files, cs) ==
    /\ call = NoCall
    /\ Returned("count_chunks", [files |-> files, chunk_size |-> cs],
                [totals |-> init_files_totals(files, cs),
                 total_chunks |-> Manifest_total_chunks(files, cs)])
    /\ UNCHANGED <<modelVars, butCall>>

\* process_chunk on the big file: the bounds check, then the chunk is encrypted
\* under the file's nonce base and chunk_index as u32
EncryptChunk(cj) ==
    /\ LET start == cj * ChunkSize
       IN  IF start >= BigFileSize
           THEN UNCHANGED noncesUsed
           ELSE noncesUsed' = noncesUsed \cup
                    {[cj |-> cj, start |-> start,
                      nonce |-> with_counter(NonceBase, as_u32(cj))]}
    /\ UNCHANGED <<modelVars, butNonces>>

\* process_chunk for file 0 called again and again: bounds check, pool.take(),
\* read_chunk appends the file's bytes to the buffer, the buffer is encrypted in
\* place and wrapped; a failed read or encryption drops the buffer unwrapped
ProcessChunk(cj) ==
    /\ LET file_size == get_file(0)
           start == cj * ChunkSize
           end == Min(start + ChunkSize, file_size)
           chunk_len == end - start
           t == BufferPool_take
           buffer == [i \in 1 .. t.buf.len |-> 0] \o SubSeq(FileData, start + 1, end)
           ct == aead_encrypt(SessionKey, with_counter(NonceBase, as_u32(cj)), buffer)
           n == Cardinality({r \in servedBodies : r.cj = cj})
       IN  IF start >= file_size
           THEN UNCHANGED <<poolVars, servedBodies>>
           ELSE \/ /\ Len(bodies) < MaxBodies
                   /\ n < MaxServes
                   /\ buffers' = t.rest
                   /\ bodies' = Append(bodies, Extend(Extend(t.buf, chunk_len), TagLen))
                   /\ servedBodies' = servedBodies \cup
                          {[cj |-> cj, n |-> n, fresh |-> Len(buffers) = 0, ct |-> ct]}
                \/ /\ buffers' = t.rest
                   /\ UNCHANGED <<bodies, servedBodies>>
    /\ UNCHANGED <<sessVars, sendVars, progVars, slotVars, histVars, everActive>>
    /\ UNCHANGED <<trackerVars, held, discarded, serverVars, butServed, storeVars>>

\* encrypt_chunk_at_position, then decrypt_chunk_at_position of its output with
\* the same key and nonce base and the counter dcounter
RoundTrip(plaintext, key, counter, dcounter) ==
    /\ call = NoCall
    /\ LET ct == encrypt_chunk_at_position(key, NonceBase, plaintext, counter)
       IN  Returned("round_trip",
                    [plaintext |-> plaintext, key |-> key, counter |-> counter,
                     dcounter |-> dcounter],
                    [ct |-> ct,
                     dec |-> decrypt_chunk_at_position(key, NonceBase, ct, dcounter)])
    /\ UNCHANGED <<modelVars, butCall>>

\* process_chunk's slice for every chunk index of a file of file_size bytes
SliceFile(file_size, cs) ==
    /\ call = NoCall
    /\ Returned("slice", [file_size |-> file_size, chunk_size |-> cs],
                [j \in 0 .. file_size |-> chunk_slice(j, cs, file_size)])
    /\ UNCHANGED <<modelVars, butCall>>

\* validate_path and validate_filename of one name
ValidateName(name) ==
    /\ call = NoCall
    /\ Returned("validate", [name |-> name],
                [path |-> validate_path(name), filename |-> validate_filename(name)])
    /\ UNCHANGED <<modelVars, butCall>>

\* set_manifest on a state that has seen no request, for a one-file manifest
ReceiveManifest(name) ==
    /\ call = NoCall
    /\ Returned("set_manifest", [name |-> name],
                set_manifest(RxInit, <<[name |-> name, size |-> RxFileSize]>>))
    /\ UNCHANGED <<modelVars, butCall>>

(***************************************************************************)
(* SendAppState used through its clones.                                   *)
(***************************************************************************)
\* let cloned = state.clone()
CloneHandle(h) ==
    /\ h \in 1 .. Len(clones.handles)
    /\ Len(clones.handles) < MaxClones
    /\ clones' = SendAppState_clone(clones, h)
    /\ UNCHANGED <<modelVars, butClones>>

\* state.total_chunks.store(n, SeqCst) through handle h
StoreTotal(h, n) ==
    /\ h \in 1 .. Len(clones.handles)
    /\ clones' = [clones EXCEPT !.heap[clones.handles[h]].total_chunks = n]
    /\ UNCHANGED <<modelVars, butClones>>

\* mark_chunk_sent(fi, cj) through handle h
MarkVia(h, fi, cj) ==
    /\ h \in 1 .. Len(clones.handles)
    /\ clones' = [clones EXCEPT !.heap[clones.handles[h]].sent_chunks = @ \cup {<<fi, cj>>}]
    /\ UNCHANGED <<modelVars, butClones>>

\* increment_sent_chunk through handle h
IncrementVia(h) ==
    /\ h \in 1 .. Len(clones.handles)
    /\ deref(clones, h).chunks_sent < MaxCompleted
    /\ clones' = [clones EXCEPT !.heap[clones.handles[h]].chunks_sent = @ + 1]
    /\ UNCHANGED <<modelVars, butClones>>

(***************************************************************************)
(* with_startup_timeout / with_timeout awaited.                            *)
(***************************************************************************)
\* with_timeout(duration, future).await begins; the future completes after
\* delay ticks, or never
StartWait(duration, delay) ==
    /\ timer.state = "unset"
    /\ timer' = [state |-> "pending", duration |-> duration, done_at |-> delay,
                 clock |-> 0]
    /\ UNCHANGED <<modelVars, butTimer>>

\* time passes while neither the future nor the delay has woken the task
Tick ==
    /\ timer.state = "pending"
    /\ ~Ready(timer) /\ ~Elapsed(timer)
    /\ timer' = [timer EXCEPT !.clock = @ + 1]
    /\ UNCHANGED <<modelVars, butTimer>>

\* the task is woken and polled
Poll ==
    /\ timer.state = "pending"
    /\ Ready(timer) \/ Elapsed(timer)
    /\ timer' = timeout_poll(timer)
    /\ UNCHANGED <<modelVars, butTimer>>

(***************************************************************************)
(* The receive endpoints.                                                  *)
(***************************************************************************)
\* POST manifest, before any manifest was accepted
RxSetManifest(name) ==
    /\ rx.session # "Completed"
    /\ ~rx.has_manifest
    /\ rx' = set_manifest(rx, <<[name |-> name, size |-> RxFileSize]>>)
    /\ UNCHANGED <<modelVars, butRx>>

\* POST chunk (0, cj): the body is the sender's chunk k, tampered with or not
RxWriteChunk(cj, k, tampered) ==
    /\ rx.session # "Completed"
    /\ rx.has_manifest
    /\ rx.chunks_received < MaxReceived
    /\ rx' = write_chunk(rx, 0, cj, IF tampered THEN Tamper(HonestCt(k)) ELSE HonestCt(k))
    /\ UNCHANGED <<modelVars, butRx>>

\* POST complete
RxComplete ==
    /\ rx.session # "Completed"
    /\ rx.has_manifest
    /\ rx' = complete_transfer(rx)
    /\ UNCHANGED <<modelVars, butRx>>

(***************************************************************************)
(* start_server (server.rs): the ctrl-c task and the serve future.         *)
(***************************************************************************)
\* signal::ctrl_c() resolves and the task calls server_handle.shutdown(): the
\* serve future returns at once and the connections still open are closed, so
\* the requests being handled are not answered
Interrupt ==
    /\ server = "serving"
    /\ server' = "stopped"
    /\ dropped' = {h \in AllSlots : ~Free(h)}
    /\ UNCHANGED <<sessVars, sendVars, progVars, poolVars, slotVars, histVars>>
    /\ UNCHANGED <<trackerVars, held, discarded, everActive, unitVars, storeVars>>

(***************************************************************************)
(* BufferPool called directly (send/buffer_pool.rs and its tests).         *)
(***************************************************************************)
\* let buf = pool.take()
PoolTake ==
    /\ Len(held) < MaxHeld
    /\ LET t == BufferPool_take
       IN  /\ held' = Append(held, t.buf)
           /\ buffers' = t.rest
    /\ UNCHANGED <<bodies, trackerVars, discarded, serverVars, unitVars, storeVars>>
    /\ UNCHANGED <<sessVars, sendVars, progVars, slotVars, histVars>>
    /\ TrackActive

\* buf.extend_from_slice(..) of n bytes on a held buffer that is still empty
PoolFill(i, n) ==
    /\ i \in 1 .. Len(held)
    /\ held[i].len = 0
    /\ held' = [held EXCEPT ![i] = Extend(held[i], n)]
    /\ UNCHANGED <<poolVars, trackerVars, discarded, serverVars, unitVars, storeVars>>
    /\ UNCHANGED <<sessVars, sendVars, progVars, slotVars, histVars>>
    /\ TrackActive

\* pool.wrap(buf) of a held buffer: the Bytes owns it until it is dropped
PoolWrap(i) ==
    /\ i \in 1 .. Len(held)
    /\ Len(bodies) < MaxBodies
    /\ bodies' = Append(bodies, held[i])
    /\ held' = RemoveAt(held, i)
    /\ UNCHANGED <<buffers, trackerVars, discarded, serverVars, unitVars, storeVars>>
    /\ UNCHANGED <<sessVars, sendVars, progVars, slotVars, histVars>>
    /\ TrackActive

\* buffers allocated outside the pool: Vec::with_capacity(SmallCap), empty or written to
SmallBufs == {[len |-> n, cap |-> SmallCap] : n \in {0, 1}}

\* pool.wrap(small) of a buffer that did not come from the pool
PoolWrapSmall(buf) ==
    /\ Len(bodies) < MaxBodies
    /\ bodies' = Append(bodies, buf)
    /\ UNCHANGED <<buffers, held, trackerVars, discarded, serverVars, unitVars, storeVars>>
    /\ UNCHANGED <<sessVars, sendVars, progVars, slotVars, histVars>>
    /\ TrackActive

(***************************************************************************)
(* manifest_handler                                                        *)
(***************************************************************************)
\* the request arrives
ManifestStart(h, tok, cid) ==
    /\ Free(h)
    /\ Goto(h, Request("manifest", tok, cid, 0, 0), "m_claim")
    /\ UNCHANGED <<sessVars, sendVars, progVars, poolVars, histVars>>
    /\ UNCHANGED restVars
    /\ TrackActive

\* the claim of the session for the caller
ManifestClaim(h) ==
    /\ pc[h] = "m_claim"
    /\ LET r == claim_or_validate_session(req[h].tok, req[h].cid)
       IN  /\ sessState' = r.state
           /\ sessOwner' = r.owner
           /\ TrackClaim(h, req[h].cid, r.res = "Ok")
           /\ IF r.res = "Ok"
              THEN Goto(h, req[h], "m_init")
              ELSE Respond(h, req[h], r.res)
    /\ UNCHANGED <<sendVars, progVars, poolVars, requested>>
    /\ UNCHANGED restVars
    /\ TrackActive

\* state.progress.init_files(names, totals), then the manifest as the 200 response
ManifestInit(h) ==
    /\ pc[h] = "m_init"
    /\ progInit' = TRUE
    /\ Respond(h, req[h], "Ok")
    /\ UNCHANGED <<sessVars, sendVars, progCount, progDone, poolVars, histVars>>
    /\ UNCHANGED restVars
    /\ TrackActive

(***************************************************************************)
(* send_handler                                                            *)
(***************************************************************************)
\* the request arrives: require_active_session, then get_file
SendAuth(h, tok, cid, fi, cj) ==
    /\ Free(h)
    /\ LET r == Request("chunk", tok, cid, fi, cj)
           auth == require_active_session(tok, cid)
       IN  IF auth # "Ok"
           THEN /\ Respond(h, r, auth)
                /\ UNCHANGED requested
           ELSE /\ requested' = requested \cup {<<fi, cj>>}
                /\ IF get_file(fi) = -1
                   THEN Respond(h, r, "BadRequest")
                   ELSE Goto(h, r, "s_check")
    /\ UNCHANGED <<sessVars, sendVars, progVars, poolVars, claimWon, raced>>
    /\ UNCHANGED restVars
    /\ TrackActive

\* let is_retry = state.has_chunk_been_sent(file_index, chunk_index)
SendCheck(h) ==
    /\ pc[h] = "s_check"
    /\ LET is_retry == has_chunk_been_sent(req[h].fi, req[h].cj)
       IN  Goto(h, [req[h] EXCEPT !.is_retry = is_retry],
                IF is_retry THEN "s_open" ELSE "s_mark")
    /\ UNCHANGED <<sessVars, sendVars, progVars, poolVars, histVars>>
    /\ UNCHANGED restVars
    /\ TrackActive

\* state.mark_chunk_sent(file_index, chunk_index)
SendMark(h) ==
    /\ pc[h] = "s_mark"
    /\ sent_chunks' = mark_chunk_sent(req[h].fi, req[h].cj).set
    /\ Goto(h, req[h], "s_inc")
    /\ UNCHANGED <<sessVars, chunks_sent, file_handles, progVars, poolVars, histVars>>
    /\ UNCHANGED restVars
    /\ TrackActive

\* state.progress.increment_file(file_index)
SendInc(h) ==
    /\ pc[h] = "s_inc"
    /\ progCount' = increment_file(req[h].fi)
    /\ Goto(h, req[h], "s_open")
    /\ UNCHANGED <<sessVars, sendVars, progInit, progDone, poolVars, histVars>>
    /\ UNCHANGED restVars
    /\ TrackActive

\* file_handles.entry(file_index): the call waits for the write lock of the
\* entry's shard; an occupied entry gives its handle (.value().clone()) and the
\* lock is released at the end of the statement
SendOpen(h) ==
    /\ pc[h] = "s_open"
    /\ ~EntryLocked(req[h].fi)
    /\ IF contains_key(file_handles, req[h].fi)
       THEN Goto(h, req[h], "s_proc")
       ELSE Goto(h, req[h], "s_insert")
    /\ UNCHANGED <<sessVars, sendVars, progVars, poolVars, histVars>>
    /\ UNCHANGED restVars
    /\ TrackActive

\* or_try_insert_with on the vacant entry: the closure runs SendFileHandle::open
\* while the entry's lock is held; Ok inserts the handle, Err leaves with `?`
SendInsert(h) ==
    /\ pc[h] = "s_insert"
    /\ \/ /\ file_handles' = insert(file_handles, req[h].fi, h)
          /\ Goto(h, req[h], "s_proc")
       \/ /\ Respond(h, req[h], FromAnyhow)
          /\ UNCHANGED file_handles
    /\ UNCHANGED <<sessVars, sent_chunks, chunks_sent, progVars, poolVars, histVars>>
    /\ UNCHANGED restVars
    /\ TrackActive

\* TransferState::cleanup: file_handles.clear() takes every shard's lock
Cleanup ==
    /\ \A i \in FileIdxs : ~EntryLocked(i)
    /\ file_handles' = DashMap_new
    /\ UNCHANGED <<sessVars, sent_chunks, chunks_sent, progVars, poolVars, slotVars, histVars>>
    /\ UNCHANGED restVars
    /\ TrackActive

\* process_chunk: the bounds check, then the blocking task starts with pool.take()
SendProcess(h) ==
    /\ pc[h] = "s_proc"
    /\ LET slice == chunk_slice(req[h].cj, ChunkSize, get_file(req[h].fi))
           t == BufferPool_take
       IN  IF ~slice.ok
           THEN /\ Respond(h, req[h], FromAnyhow)
                /\ UNCHANGED poolVars
           ELSE /\ buffers' = t.rest
                /\ UNCHANGED bodies
                /\ Goto(h, [req[h] EXCEPT !.buffer = t.buf], "s_read")
    /\ UNCHANGED <<sessVars, sendVars, progVars, histVars>>
    /\ UNCHANGED restVars
    /\ TrackActive

\* the blocking task: read_chunk, encrypt_chunk_in_place, pool.wrap(buffer); an
\* error of the read or the encryption drops the buffer
SendRead(h) ==
    /\ pc[h] = "s_read"
    /\ LET chunk_len == chunk_slice(req[h].cj, ChunkSize, get_file(req[h].fi)).chunk_len
           r == [req[h] EXCEPT !.buffer = NoBuffer]
       IN  \/ /\ Len(bodies) < MaxBodies
              /\ bodies' = Append(bodies, Extend(Extend(req[h].buffer, chunk_len), TagLen))
              /\ Respond(h, r, "Ok")
           \/ /\ UNCHANGED bodies
              /\ Respond(h, r, FromAnyhow)
    /\ UNCHANGED <<sessVars, sendVars, progVars, buffers, histVars>>
    /\ UNCHANGED restVars
    /\ TrackActive

\* the response body is dropped: PooledVec::drop gives the buffer back
DropBody(i) ==
    /\ i \in 1 .. Len(bodies)
    /\ buffers' = return_buf(bodies[i])
    /\ bodies' = RemoveAt(bodies, i)
    /\ discarded' = (discarded \/ bodies[i].cap < buffer_capacity)
    /\ UNCHANGED <<sessVars, sendVars, progVars, slotVars, histVars>>
    /\ UNCHANGED <<trackerVars, held, serverVars, unitVars, storeVars>>
    /\ TrackActive

(***************************************************************************)
(* complete_download                                                       *)
(***************************************************************************)
\* the request arrives: if state.session.is_completed() return 200
CompleteStart(h, tok, cid) ==
    /\ Free(h)
    /\ LET r == Request("complete_download", tok, cid, 0, 0)
       IN  IF SessionImpl_is_completed
           THEN Respond(h, r, "Ok")
           ELSE Goto(h, r, "c_auth")
    /\ UNCHANGED <<sessVars, sendVars, progVars, poolVars, histVars>>
    /\ UNCHANGED restVars
    /\ TrackActive

\* auth::require_active_session(&state.session, &token, &lock_token)?
CompleteAuth(h) ==
    /\ pc[h] = "c_auth"
    /\ LET auth == require_active_session(req[h].tok, req[h].cid)
       IN  IF auth # "Ok"
           THEN Respond(h, req[h], auth)
           ELSE Goto(h, req[h], "c_complete")
    /\ UNCHANGED <<sessVars, sendVars, progVars, poolVars, histVars>>
    /\ UNCHANGED restVars
    /\ TrackActive

\* the chunks_sent < total_chunks warning, then state.session.complete(..)
CompleteSession(h) ==
    /\ pc[h] = "c_complete"
    /\ LET r == SendSession_complete(req[h].tok, req[h].cid)
       IN  /\ sessState' = r.state
           /\ sessOwner' = r.owner
    /\ Goto(h, req[h], "c_mark")
    /\ UNCHANGED <<sendVars, progVars, poolVars, histVars>>
    /\ UNCHANGED restVars
    /\ TrackActive

\* mark_all_files_complete(&state), then the 200 response
CompleteMark(h) ==
    /\ pc[h] = "c_mark"
    /\ progDone' = mark_all_files_complete
    /\ Respond(h, req[h], "Ok")
    /\ UNCHANGED <<sessVars, sendVars, progInit, progCount, poolVars, histVars>>
    /\ UNCHANGED restVars
    /\ TrackActive

(***************************************************************************)
(* The session store and download_handler (session.rs, server/handlers.rs) *)
(***************************************************************************)
\* every variable of the send side
butStore == <<sessVars, sendVars, progVars, poolVars, slotVars, histVars, everActive,
              trackerVars, held, discarded, serverVars, unitVars>>

\* start_server: sessions.create_session(file_path), one critical section
CreateSession(file_path) ==
    /\ Cardinality(DOMAIN sessions) < MaxSessions
    /\ lock_ready(mutex)
    /\ sessions' = create_session(sessions, new_token(sessions), file_path)
    /\ UNCHANGED <<mutex, dl, dlHist, butStore>>

\* a call of validate_and_mark_used or is_valid, or a GET /download/:token/data,
\* arrives: the next thing it does is sessions.lock().await
StoreCall(d, op, token) ==
    /\ dl[d].pc \in {"idle", "done"}
    /\ dl' = [dl EXCEPT ![d] = [NoDl EXCEPT !.op = op, !.token = token, !.pc = "lock"]]
    /\ UNCHANGED <<sessions, mutex, dlHist, butStore>>

\* the lock is granted
StoreLock(d) ==
    /\ dl[d].pc = "lock"
    /\ lock_ready(mutex)
    /\ mutex' = d
    /\ dl' = [dl EXCEPT ![d].pc = IF dl[d].op = "is_valid" THEN "read" ELSE "check"]
    /\ UNCHANGED <<sessions, dlHist, butStore>>

\* validate_and_mark_used: the look-up and the test of the flag; None for an
\* unknown or used token, which download_handler answers 403
StoreCheck(d) ==
    /\ dl[d].pc = "check"
    /\ IF unused(sessions, dl[d].token)
       THEN /\ dl' = [dl EXCEPT ![d].pc = "mark"]
            /\ UNCHANGED mutex
       ELSE /\ dl' = [dl EXCEPT ![d].pc = "done", ![d].ret = "None",
                                ![d].status = IF dl[d].op = "download" THEN 403 ELSE 0]
            /\ mutex' = unlock(mutex, d)
    /\ UNCHANGED <<sessions, dlHist, butStore>>

\* validate_and_mark_used: session.used = true; return Some(file_path)
StoreMark(d) ==
    /\ dl[d].pc = "mark"
    /\ sessions' = mark_used(sessions, dl[d].token)
    /\ mutex' = unlock(mutex, d)
    /\ dl' = [dl EXCEPT ![d].pc = IF dl[d].op = "download" THEN "open" ELSE "done",
                        ![d].ret = sessions[dl[d].token].file_path]
    /\ dlHist' = [dlHist EXCEPT !.granted[dl[d].token] = @ + 1]
    /\ UNCHANGED butStore

\* is_valid under the lock
StoreRead(d) ==
    /\ dl[d].pc = "read"
    /\ mutex' = unlock(mutex, d)
    /\ dl' = [dl EXCEPT ![d].pc = "done", ![d].ret = is_valid(sessions, dl[d].token)]
    /\ UNCHANGED <<sessions, dlHist, butStore>>

\* download_handler: File::open(&file_path).await, Err -> 500
DownloadOpen(d) ==
    /\ dl[d].pc = "open"
    /\ \/ /\ dl' = [dl EXCEPT ![d].pc = "meta"]
          /\ UNCHANGED dlHist
       \/ /\ dl' = [dl EXCEPT ![d].pc = "done", ![d].status = 500]
          /\ dlHist' = [dlHist EXCEPT !.failed = @ \cup {dl[d].token}]
    /\ UNCHANGED <<sessions, mutex, butStore>>

\* download_handler: tokio::fs::metadata(&file_path).await, Err -> 500; then the
\* response with the stream of the file as its body (an Err of the builder -> 500)
DownloadMeta(d) ==
    /\ dl[d].pc = "meta"
    /\ \/ /\ dl' = [dl EXCEPT ![d].pc = "done", ![d].status = 200]
          /\ dlHist' = [dlHist EXCEPT !.served = @ \cup {dl[d].token}]
       \/ /\ dl' = [dl EXCEPT ![d].pc = "done", ![d].status = 500]
          /\ dlHist' = [dlHist EXCEPT !.failed = @ \cup {dl[d].token}]
    /\ UNCHANGED <<sessions, mutex, butStore>>

(***************************************************************************)
(* Specifications.                                                         *)
(***************************************************************************)
\* a call or request arrives at slot h
Arrive(h) ==
    \/ \E c \in Creds : ApiClaim(h, c[1], c[2])
    \/ \E c \in Creds : ApiComplete(h, c[1], c[2])
    \/ \E c \in Creds : ManifestStart(h, c[1], c[2])
    \/ \E c \in Creds : CompleteStart(h, c[1], c[2])

ManifestSteps(h) ==
    \/ ManifestClaim(h)
    \/ ManifestInit(h)

ChunkSteps(h) ==
    \/ SendCheck(h)
    \/ SendMark(h)
    \/ SendInc(h)
    \/ SendOpen(h)
    \/ SendInsert(h)
    \/ SendProcess(h)
    \/ SendRead(h)

CompleteSteps(h) ==
    \/ CompleteAuth(h)
    \/ CompleteSession(h)
    \/ CompleteMark(h)

\* the previous response has been sent completely
Quiet == Len(bodies) = 0

\* requests are served one at a time, each after the previous response was sent
Next ==
    \/ \E h \in SeqSlots, c \in Creds : Quiet /\ ApiClaim(h, c[1], c[2])
    \/ \E h \in SeqSlots, c \in Creds : Quiet /\ ApiComplete(h, c[1], c[2])
    \/ \E h \in SeqSlots, c \in Creds : Quiet /\ ManifestStart(h, c[1], c[2])
    \/ \E h \in SeqSlots, c \in Creds : Quiet /\ CompleteStart(h, c[1], c[2])
    \/ \E h \in SeqSlots, c \in Creds, p \in ReqPairs :
          Quiet /\ SendAuth(h, c[1], c[2], p[1], p[2])
    \/ \E h \in SeqSlots : ManifestSteps(h) \/ ChunkSteps(h) \/ CompleteSteps(h)
    \/ \E i \in 1 .. MaxBodies : DropBody(i)

Spec == Init /\ [][Next]_vars

\* two handlers in flight: manifest and completion requests race on the session
NextRace ==
    \/ \E h \in AllSlots : Arrive(h)
    \/ \E h \in AllSlots : ManifestSteps(h) \/ CompleteSteps(h)

SpecRace == Init /\ [][NextRace]_vars

\* Chunk requests of the active client served concurrently: the pairs asked for
SamePairs == {<<0, 0>>, <<0, 1>>}

NextChunks ==
    \/ \E h \in AllSlots : ApiClaim(h, SessionToken, ClientA)
    \/ \E h \in AllSlots, p \in SamePairs :
          SendAuth(h, SessionToken, ClientA, p[1], p[2])
    \/ \E h \in AllSlots : ChunkSteps(h)
    \/ \E i \in 1 .. MaxBodies : DropBody(i)

SpecChunks == Init /\ [][NextChunks]_vars

\* The same requests with the session cleanup run at any time
NextRegistry ==
    \/ \E h \in AllSlots : ApiClaim(h, SessionToken, ClientA)
    \/ \E h \in AllSlots, p \in SamePairs :
          SendAuth(h, SessionToken, ClientA, p[1], p[2])
    \/ \E h \in AllSlots : ChunkSteps(h)
    \/ \E i \in 1 .. MaxBodies : DropBody(i)
    \/ Cleanup

SpecRegistry == Init /\ [][NextRegistry]_vars

\* Every slot serves at most one chunk request of the active client, one request
\* at a time: a state shows which pairs were fetched, and that each was fetched once
NextFetch ==
    \/ \E h \in AllSlots : req[h].op = "none" /\ ApiClaim(h, SessionToken, ClientA)
    \/ \E h \in AllSlots, p \in ReqPairs :
          /\ \A g \in AllSlots : Free(g)
          /\ req[h].op # "chunk"
          /\ SendAuth(h, SessionToken, ClientA, p[1], p[2])
    \/ \E h \in AllSlots : ChunkSteps(h)
    \/ \E i \in 1 .. MaxBodies : DropBody(i)

SpecFetch == Init /\ [][NextFetch]_vars

\* Callers of the dedup set, interleaved
NextDedup ==
    \/ \E h \in AllSlots, p \in ReqPairs : MarkCall(h, p[1], p[2])
    \/ \E h \in AllSlots : MarkExec(h)
    \/ \E h \in AllSlots, p \in ReqPairs : ApiHas(h, p[1], p[2])

SpecDedup == Init /\ [][NextDedup]_vars

\* The callers of the progress tracker
NextProgress ==
    \/ TrackerIncrement
    \/ \E total \in 0 .. MaxTotal : TrackerSetTotal(total)
    \/ TrackerComplete

SpecProgress == Init /\ [][NextProgress]_vars

\* The callers of the buffer pool
NextPool ==
    \/ PoolTake
    \/ \E i \in 1 .. MaxHeld, n \in {ChunkSize, buffer_capacity + 1} : PoolFill(i, n)
    \/ \E i \in 1 .. MaxHeld : PoolWrap(i)
    \/ \E buf \in SmallBufs : PoolWrapSmall(buf)
    \/ \E i \in 1 .. MaxBodies : DropBody(i)

SpecPool == Init /\ [][NextPool]_vars

\* The send server with its ctrl-c task: requests are accepted and handled
\* while the serve future runs
NextServe ==
    \/ \E h \in AllSlots : server = "serving" /\ ApiClaim(h, SessionToken, ClientA)
    \/ \E h \in AllSlots, p \in SamePairs :
          server = "serving" /\ SendAuth(h, SessionToken, ClientA, p[1], p[2])
    \/ \E h \in AllSlots :
          server = "serving" /\ CompleteStart(h, SessionToken, ClientA)
    \/ \E h \in AllSlots : server = "serving" /\ ChunkSteps(h)
    \/ \E h \in AllSlots : server = "serving" /\ CompleteSteps(h)
    \/ \E i \in 1 .. MaxBodies : server = "serving" /\ DropBody(i)
    \/ Interrupt

SpecServe == Init /\ [][NextServe]_vars

\* The functions that depend on their arguments only, each called once from
\* the initial state
NextUnit ==
    \/ \E files \in Manifests, cs \in ChunkSizes : CountChunks(files, cs)
    \/ \E pt \in Plaintexts, key \in Keys, c \in Counters, d \in Counters :
          RoundTrip(pt, key, c, d)
    \/ \E name \in Names : ValidateName(name)
    \/ \E file_size \in Sizes, cs \in ChunkSizes : SliceFile(file_size, cs)
    \/ \E name \in Names : ReceiveManifest(name)

\* An upload: the manifest, chunk posts in any order, completion
NextRx ==
    \/ \E name \in RxNames : RxSetManifest(name)
    \/ \E cj \in RxChunkIdxs, k \in RxChunkIdxs, tampered \in BOOLEAN :
          RxWriteChunk(cj, k, tampered)
    \/ RxComplete

SpecRx == Init /\ [][NextRx]_vars

\* One SendAppState, cloned and used through every clone
NextClones ==
    \/ \E h \in 1 .. MaxClones : CloneHandle(h)
    \/ \E h \in 1 .. MaxClones, n \in {0, 9} : StoreTotal(h, n)
    \/ \E h \in 1 .. MaxClones, p \in SamePairs : MarkVia(h, p[1], p[2])
    \/ \E h \in 1 .. MaxClones : IncrementVia(h)

SpecClones == Init /\ [][NextClones]_vars

\* One awaited with_timeout call; the runtime lets time pass and polls woken tasks
NextTimeout ==
    \/ \E duration \in Durations, delay \in Delays : StartWait(duration, delay)
    \/ Tick
    \/ Poll

SpecTimeout == Init /\ [][NextTimeout]_vars /\ WF_vars(Tick) /\ WF_vars(Poll)

\* Chunk requests for a file with more chunks than the counter has values
NextNonce ==
    \/ \E cj \in BigChunkIdxs : EncryptChunk(cj)

SpecNonce == Init /\ [][NextNonce]_vars

SpecUnit == Init /\ [][NextUnit]_vars

\* The single-download server: the session is created, and callers validate,
\* query and download with any token, concurrently
NextStore ==
    \/ \E file_path \in FilePaths : CreateSession(file_path)
    \/ \E d \in Callers, op \in {"validate", "is_valid", "download"}, token \in StoreTokens :
          StoreCall(d, op, token)
    \/ \E d \in Callers : StoreLock(d)
    \/ \E d \in Callers : StoreCheck(d)
    \/ \E d \in Callers : StoreMark(d)
    \/ \E d \in Callers : StoreRead(d)
    \/ \E d \in Callers : DownloadOpen(d)
    \/ \E d \in Callers : DownloadMeta(d)

SpecStore == Init /\ [][NextStore]_vars

\* Chunks of file 0 served again and again while other callers use the pool
NextCipher ==
    \/ \E cj \in 0 .. MaxChunkIdx : ProcessChunk(cj)
    \/ \E i \in 1 .. MaxBodies : DropBody(i)
    \/ PoolTake
    \/ \E i \in 1 .. MaxHeld : PoolFill(i, ChunkSize)
    \/ \E i \in 1 .. MaxHeld : PoolWrap(i)

SpecCipher == Init /\ [][NextCipher]_vars

(***************************************************************************)
(* Properties.                                                             *)
(***************************************************************************)
Done(h, op) == pc[h] = "done" /\ req[h].op = op

\* the claim made at slot h was granted
Granted(h) == pc[h] = "m_init" \/ (pc[h] = "done" /\ res[h].ok)

\* slot h performs claim(tok, cid): directly, or from the manifest handler
ClaimStep(h, tok, cid) ==
    \/ ApiClaim(h, tok, cid)
    \/ req[h].tok = tok /\ req[h].cid = cid /\ ManifestClaim(h)

Rank(st) == CASE st = "Unclaimed" -> 0 [] st = "Claimed" -> 1 [] st = "Completed" -> 2

\* C1: at most one client id ever satisfies is_active or is let through by
\* require_active_session; every other client id is inactive and rejected, in
\* every reachable state.
C1_ClaimExclusivity ==
    /\ Cardinality(everActive) <= 1
    /\ \A c \in ClientIds \ everActive, tok \in Tokens :
          /\ ~SendSession_is_active(tok, c)
          /\ require_active_session(tok, c) # "Ok"

\* the session went Unclaimed, Claimed(a), Completed while b tried to claim it
C1_Witness ==
    /\ sessState = "Completed"
    /\ everActive = {ClientA}
    /\ \E h \in AllSlots :
          /\ pc[h] = "done"
          /\ req[h].op \in {"claim", "manifest"}
          /\ req[h].tok = SessionToken
          /\ req[h].cid = ClientB
          /\ ~res[h].ok

\* C2: a claim with the matching token on an Unclaimed session is granted and
\* leaves Claimed(cid); on Claimed(cid) a claim by cid is granted and changes
\* nothing; a claim by another client id is refused and changes nothing.
C2_ClaimTransitions ==
    [][\A h \in AllSlots, cid \in ClientIds :
          (WellFormed(SessionToken, cid) /\ ClaimStep(h, SessionToken, cid)) =>
              /\ sessState = "Unclaimed" =>
                    Granted(h)' /\ sessState' = "Claimed" /\ sessOwner' = cid
              /\ (sessState = "Claimed" /\ sessOwner = cid) =>
                    Granted(h)' /\ UNCHANGED sessVars
              /\ (sessState = "Claimed" /\ sessOwner # cid) =>
                    ~Granted(h)' /\ UNCHANGED sessVars]_vars

\* a repeated the claim after its manifest request claimed the session; b was refused
C2_Witness ==
    /\ sessState = "Claimed"
    /\ sessOwner = ClientA
    /\ progInit
    /\ \E h, g \in AllSlots :
          /\ Done(h, "claim") /\ req[h].tok = SessionToken
          /\ req[h].cid = ClientA /\ res[h].ok
          /\ Done(g, "claim") /\ req[g].tok = SessionToken
          /\ req[g].cid = ClientB /\ ~res[g].ok

\* C3: claims of different client ids that run concurrently on an Unclaimed
\* session have exactly one winner: never two client ids with a granted
\* claim, the session is bound to the winner, and a refused well-formed claim
\* means another client id won.
C3_OneWinner ==
    /\ Cardinality(claimWon) <= 1
    /\ claimWon # {} => (sessState # "Unclaimed" /\ claimWon = {sessOwner})
    /\ \A h \in AllSlots :
          (pc[h] = "m_init" => req[h].cid \in claimWon)
    /\ \A h \in AllSlots :
          ( /\ pc[h] = "done"
            /\ req[h].op \in {"claim", "manifest"}
            /\ WellFormed(req[h].tok, req[h].cid)
            /\ ~res[h].ok ) =>
              /\ Cardinality(claimWon) = 1
              /\ sessState = "Claimed" => req[h].cid \notin claimWon

\* two manifest requests of a and b were pending together; one won and is still
\* in its handler, the other was refused
C3_Witness ==
    /\ raced
    /\ \E h, g \in AllSlots :
          /\ pc[h] = "m_init"
          /\ Done(g, "manifest")
          /\ WellFormed(req[g].tok, req[g].cid)
          /\ req[g].cid # req[h].cid
          /\ ~res[g].ok

\* C4: a claim with a wrong token, or with an empty or whitespace-only client
\* id, is refused and leaves the session as it was; a session that is still
\* Unclaimed can then be claimed with the session token and a client id.
C4_BadClaimRefused ==
    [][\A h \in AllSlots, c \in Creds :
          (~WellFormed(c[1], c[2]) /\ ClaimStep(h, c[1], c[2])) =>
              /\ ~Granted(h)'
              /\ UNCHANGED sessVars
              /\ sessState = "Unclaimed" =>
                    (SendSession_claim(SessionToken, ClientA).ok
                     /\ claim_or_validate_session(SessionToken, ClientA).res = "Ok")']_vars

\* a claim with a blank client id and one with a wrong token were both refused
\* and the session is still Unclaimed
C4_Witness ==
    /\ sessState = "Unclaimed"
    /\ \E h, g \in AllSlots :
          /\ pc[h] = "done" /\ req[h].op \in {"claim", "manifest"}
          /\ req[h].tok = SessionToken /\ req[h].cid = <<" ">> /\ ~res[h].ok
          /\ pc[g] = "done" /\ req[g].op \in {"claim", "manifest"}
          /\ req[g].tok = WrongToken /\ ~res[g].ok

\* C5: is_active(token, cid) holds exactly when the token is the session
\* token and cid is the client whose claim was granted (the session is then
\* Claimed(cid) or Completed); require_active_session lets through exactly
\* those calls.
C5_ActiveIff ==
    \A tok \in Tokens, c \in ClientIds :
        /\ SendSession_is_active(tok, c) <=> (tok = SessionToken /\ c \in claimWon)
        /\ (require_active_session(tok, c) = "Ok") <=> (tok = SessionToken /\ c \in claimWon)
        /\ sessState = "Unclaimed" => ~SendSession_is_active(tok, c)

\* a completed the session it had claimed and is still active; b is not
C5_Witness ==
    /\ sessState = "Completed"
    /\ SendSession_is_active(SessionToken, ClientA)
    /\ ~SendSession_is_active(SessionToken, ClientB)
    /\ ~SendSession_is_active(WrongToken, ClientA)
    /\ \E h \in AllSlots :
          Done(h, "complete") /\ req[h].cid = ClientA /\ res[h].ok

\* C6: complete on an Unclaimed session, with a wrong token, or by a client
\* other than the claimer returns false and changes nothing; by the claimer
\* on a Claimed session it returns true and the session becomes Completed.
C6_CompleteRequiresActive ==
    [][/\ \A h \in AllSlots, c \in Creds :
             ApiComplete(h, c[1], c[2]) =>
                 /\ ( \/ sessState = "Unclaimed"
                      \/ c[1] # SessionToken
                      \/ c[2] # sessOwner ) =>
                        (~res'[h].ok /\ UNCHANGED sessVars)
                 /\ ( sessState = "Claimed" /\ c[1] = SessionToken /\ c[2] = sessOwner ) =>
                        (res'[h].ok /\ sessState' = "Completed" /\ sessOwner' = sessOwner)
       /\ \A h \in AllSlots :
             (CompleteSession(h) /\ sessState = "Claimed") => sessState' = "Completed"]_vars

\* the claimer's complete returned true, another client's returned false
C6_Witness ==
    /\ sessState = "Completed"
    /\ \E h, g \in AllSlots :
          /\ Done(h, "complete") /\ req[h].tok = SessionToken
          /\ req[h].cid = sessOwner /\ res[h].ok
          /\ Done(g, "complete") /\ req[g].tok = SessionToken
          /\ req[g].cid \notin {sessOwner, << >>, <<" ">>} /\ ~res[g].ok

\* C7: the session state never regresses (Unclaimed, Claimed, Completed in this
\* order), the claiming client id never changes once set, and a complete by
\* the claimer on a Completed session succeeds again, as a direct call and as
\* a completion request.
C7_IdempotentMonotone ==
    [][/\ Rank(sessState') >= Rank(sessState)
       /\ sessState # "Unclaimed" => sessOwner' = sessOwner
       /\ \A h \in AllSlots, cid \in ClientIds :
             (sessState = "Completed" /\ sessOwner = cid) =>
                 /\ ApiComplete(h, SessionToken, cid) =>
                       (res'[h].ok /\ sessState' = "Completed")
                 /\ CompleteStart(h, SessionToken, cid) =>
                       (res'[h].status = 200 /\ sessState' = "Completed")]_vars

\* complete was called twice by the claimer and returned true both times
C7_Witness ==
    /\ sessState = "Completed"
    /\ \A h \in AllSlots :
          /\ Done(h, "complete")
          /\ req[h].tok = SessionToken
          /\ req[h].cid = sessOwner
          /\ res[h].ok

\* the state a rejected request must leave alone
served == <<sessVars, sendVars, progVars, poolVars>>

\* C8: while the session is Claimed(A), a manifest, chunk or completion
\* request that carries the session token and another client id is answered
\* with Unauthorized (401) and changes no session, dedup, progress or pool
\* state.
C8_WrongClientUnauthorized ==
    [][\A h \in SeqSlots, cid \in ClientIds :
          (sessState = "Claimed" /\ cid # sessOwner /\ WellFormed(SessionToken, cid)) =>
              /\ (req[h].tok = SessionToken /\ req[h].cid = cid /\ ManifestClaim(h)) =>
                    (res'[h].status = 401 /\ UNCHANGED served)
              /\ \A p \in ReqPairs :
                    SendAuth(h, SessionToken, cid, p[1], p[2]) =>
                        (res'[h].status = 401 /\ UNCHANGED served)
              /\ (req[h].tok = SessionToken /\ req[h].cid = cid /\ CompleteAuth(h)) =>
                    (res'[h].status = 401 /\ UNCHANGED served)]_vars

\* C9: on a Completed session a completion request by the claimer is answered
\* with success, and one by another client id or with a wrong token is
\* answered with Unauthorized (401).
C9_CompletedStillAuthorizes ==
    \A h \in SeqSlots :
        (Done(h, "complete_download") /\ sessState = "Completed") =>
            IF req[h].tok = SessionToken /\ req[h].cid = sessOwner
            THEN res[h].status = 200
            ELSE res[h].status = 401

\* the distinct (file, chunk) pairs the active client requested for a file of the manifest
Served == {p \in requested : get_file(p[1]) # -1}

\* C10: under sequential chunk requests by the active client, once a request is
\* answered unique_chunks_sent() is the number of distinct requested pairs
\* whose file index is in the manifest, increment_file(i) has been called once
\* for each such pair of file i, and chunks_sent has not advanced.
C10_SequentialDedup ==
    (\A h \in SeqSlots : Free(h)) =>
        /\ sent_chunks = Served
        /\ unique_chunks_sent = Cardinality(Served)
        /\ \A i \in FileIdxs : progCount[i] = Cardinality({p \in Served : p[1] = i})
        /\ get_chunks_sent = 0

\* chunk (0, 1) was requested again and served as a retry, and is counted once
C10_Witness ==
    \E h \in SeqSlots :
        /\ Done(h, "chunk")
        /\ req[h].fi = 0 /\ req[h].cj = 1
        /\ req[h].is_retry
        /\ res[h].ok
        /\ requested = {<<0, 1>>}
        /\ unique_chunks_sent = 1
        /\ progCount[0] = 1

\* C10 as stated: the counts equal the number of all distinct pairs requested
C10_AllRequestedCounted ==
    (\A h \in SeqSlots : Free(h)) =>
        /\ unique_chunks_sent = Cardinality(requested)
        /\ \A i \in FileIdxs : progCount[i] = Cardinality({p \in requested : p[1] = i})
        /\ get_chunks_sent = 0

\* C11: under concurrent chunk requests the progress of a file is incremented
\* at most once for each of its pairs: the increments of file i never exceed
\* the number of marked pairs of file i.
C11_AtMostOneIncrement ==
    \A i \in FileIdxs : progCount[i] <= Cardinality({p \in sent_chunks : p[1] = i})

\* the (file, chunk) pairs of the manifest: those whose start offset is inside the file
ValidPairs ==
    {p \in FileIdxs \X (0 .. MaxChunkIdx) : p[2] * ChunkSize < get_file(p[1])}

\* every chunk of every manifest file was fetched, each exactly once and with success
FetchedOnce ==
    /\ \A p \in ValidPairs : \E h \in AllSlots :
          Done(h, "chunk") /\ <<req[h].fi, req[h].cj>> = p /\ res[h].ok
    /\ \A h \in AllSlots :
          req[h].op = "chunk" =>
              (Done(h, "chunk") /\ res[h].ok /\ <<req[h].fi, req[h].cj>> \in ValidPairs)
    /\ \A h, g \in AllSlots :
          (h # g /\ req[h].op = "chunk" /\ req[g].op = "chunk") =>
              <<req[h].fi, req[h].cj>> # <<req[g].fi, req[g].cj>>

\* C12: after the active client has fetched every chunk of every manifest file
\* exactly once, get_chunks_sent() equals get_total_chunks().
C12_AllChunksCounted ==
    FetchedOnce => get_chunks_sent = get_total_chunks

\* the pair of the call in slot h
PairOf(h) == <<req[h].fi, req[h].cj>>

\* C13: mark_chunk_sent returns true exactly when the pair was not in the dedup
\* set before the call, and the pair is in the set afterwards; of the callers
\* that mark one pair at most one gets true, and a caller that marks a pair
\* while another holds a true result for it gets false; has_chunk_been_sent
\* changes nothing and is true exactly for the pairs already marked.
C13_MarkOnce ==
    /\ [](\A h, g \in AllSlots :
            (h # g /\ Done(h, "mark") /\ Done(g, "mark") /\ PairOf(h) = PairOf(g)) =>
                ~(res[h].ok /\ res[g].ok))
    /\ [][/\ \A h \in AllSlots :
               MarkExec(h) =>
                   /\ res'[h].ok <=> (PairOf(h) \notin sent_chunks)
                   /\ sent_chunks' = sent_chunks \cup {PairOf(h)}
          /\ \A h \in AllSlots, p \in ReqPairs :
               ApiHas(h, p[1], p[2]) =>
                   /\ res'[h].ok <=> (p \in sent_chunks)
                   /\ UNCHANGED sent_chunks]_vars

\* two callers marked the pair (0, 1): one got true, the other false
C13_Witness ==
    /\ Done("h1", "mark") /\ Done("h2", "mark")
    /\ PairOf("h1") = <<0, 1>> /\ PairOf("h2") = <<0, 1>>
    /\ res["h1"].ok # res["h2"].ok
    /\ sent_chunks = {<<0, 1>>}

\* C14: until complete() is called the watch channel carries at most 99.0, and
\* update_progress sends at most 99.0 for every completed and total count,
\* also for completed = total and completed > total.
C14_ProgressCap ==
    /\ ~completeCalled => Leq(progress, <<99, 1>>)
    /\ \A completed \in 0 .. MaxCompleted, total \in 0 .. MaxTotal :
          Leq(update_progress(completed, total), <<99, 1>>)

\* more increments than the total were made and the channel carries the cap
C14_Witness ==
    /\ ~completeCalled
    /\ total_chunks > 0
    /\ completed_chunks > total_chunks
    /\ progress = <<99, 1>>

\* C15: once complete() has been called the watch channel carries exactly 100,
\* whatever runs afterwards.
C15_HundredAfterComplete ==
    completeCalled => progress = <<100, 1>>

\* C16: a completion request of the active client on a Claimed session passes
\* the authentication and goes on to complete the session although
\* chunks_sent < total_chunks; the session becomes Completed, every manifest
\* file is marked complete in the progress tracker and the answer is 200.
C16_PrematureCompleteAccepted ==
    [][\A h \in SeqSlots :
          /\ ( /\ CompleteAuth(h)
               /\ sessState = "Claimed"
               /\ req[h].tok = SessionToken
               /\ req[h].cid = sessOwner ) =>
                  (get_chunks_sent < get_total_chunks => pc'[h] = "c_complete")
          /\ CompleteSession(h) => (sessState' = "Completed" /\ pc'[h] = "c_mark")
          /\ CompleteMark(h) =>
                  /\ sessState' = "Completed"
                  /\ \A i \in FileIdxs : progDone'[i]
                  /\ res'[h].status = 200]_vars

\* the completion request was answered 200 after one of two chunks was requested
C16_Witness ==
    \E h \in SeqSlots :
        /\ Done(h, "complete_download")
        /\ res[h].status = 200
        /\ req[h].cid = sessOwner
        /\ sessState = "Completed"
        /\ \A i \in FileIdxs : progDone[i]
        /\ unique_chunks_sent = 1
        /\ get_chunks_sent < get_total_chunks

\* C18: a chunk request of the active client whose file index is not below the
\* number of manifest files, or whose start offset chunk_index * chunk_size is
\* at or beyond the file size, is answered with BadRequest (400) and no chunk
\* data.
C18_OutOfRangeBadRequest ==
    [][\A h \in SeqSlots :
          /\ \A p \in ReqPairs :
                ( /\ SendAuth(h, SessionToken, sessOwner, p[1], p[2])
                  /\ require_active_session(SessionToken, sessOwner) = "Ok"
                  /\ p[1] >= NumFiles ) =>
                    (res'[h].status = 400 /\ UNCHANGED bodies)
          /\ ( /\ SendProcess(h)
               /\ req[h].cj * ChunkSize >= get_file(req[h].fi) ) =>
                    (res'[h].status = 400 /\ UNCHANGED bodies)]_vars

\* C19: after any sequence of take, fill, wrap and drop, the buffer take hands
\* out has length 0 and capacity at least buffer_capacity, and so has every
\* buffer a caller has just taken.
C19_TakeGivesEmptyBuffer ==
    /\ [](BufferPool_take.buf.len = 0 /\ BufferPool_take.buf.cap >= buffer_capacity)
    /\ [][PoolTake =>
            /\ held'[Len(held')].len = 0
            /\ held'[Len(held')].cap >= buffer_capacity]_vars

\* a held buffer is empty and larger than a fresh one: it was filled past its
\* capacity, wrapped, dropped, and taken again
C19_Witness ==
    \E i \in 1 .. Len(held) :
        held[i].len = 0 /\ held[i].cap > buffer_capacity

\* C20: dropping the wrapper of a buffer whose capacity is below
\* buffer_capacity leaves the free list unchanged, and every buffer in the
\* free list has capacity at least buffer_capacity.
C20_UndersizedNotRetained ==
    /\ [](\A k \in 1 .. Len(buffers) : buffers[k].cap >= buffer_capacity)
    /\ [][\A i \in 1 .. MaxBodies :
            (DropBody(i) /\ bodies[i].cap < buffer_capacity) =>
                UNCHANGED buffers]_vars

\* the wrapper of an undersized buffer was dropped; all buffers of the pool are back
C20_Witness ==
    /\ discarded
    /\ Len(bodies) = 0
    /\ Len(held) = 0
    /\ Len(buffers) = PoolSize

\* C17: an operator interrupt drains before the process exits: when the server
\* has stopped, no request that was in flight at the interrupt was dropped
\* unanswered.
C17_InterruptDrains == server = "stopped" => dropped = {}

RECURSIVE SumSeq(_)
SumSeq(q) == IF Len(q) = 0 THEN 0 ELSE q[Len(q)] + SumSeq(SubSeq(q, 1, Len(q) - 1))

\* n is the least number of chunks of cs bytes that hold size bytes
IsCeil(n, size, cs) == n * cs >= size /\ (n = 0 \/ (n - 1) * cs < size)

\* C21: every file has ceil(size / chunk_size) chunks (0 when it is empty),
\* total_chunks is the sum of the per-file counts, and the per-file totals the
\* manifest handler gives to the progress tracker add up to total_chunks.
C21_ChunkCounting ==
    call.fn = "count_chunks" =>
        /\ \A i \in 1 .. Len(call.args.files) :
              /\ IsCeil(call.ret.totals[i], call.args.files[i], call.args.chunk_size)
              /\ call.args.files[i] = 0 => call.ret.totals[i] = 0
        /\ SumSeq(call.ret.totals) = call.ret.total_chunks

\* an empty file and a file of two and a half chunks: 0 and 3 chunks, 3 in total
C21_Witness ==
    /\ call.fn = "count_chunks"
    /\ call.args.files = <<0, 2 * ChunkSize + 1>>
    /\ call.args.chunk_size = ChunkSize
    /\ call.ret.totals = <<0, 3>>
    /\ call.ret.total_chunks = 3

\* C22: two chunks of the same file with different chunk indices are never
\* encrypted under the same nonce.
C22_DistinctChunksDistinctNonces ==
    \A a, b \in noncesUsed : a.cj # b.cj => a.nonce # b.nonce

\* C23: all bodies served for the same chunk of a file are byte-identical,
\* whatever was served in between and whichever buffer was used.
C23_SameChunkSameCiphertext ==
    \A a, b \in servedBodies : a.cj = b.cj => a.ct = b.ct

\* a chunk was served twice, once from a reused pool buffer and once from a
\* freshly allocated one, and the other chunk was served as well
C23_Witness ==
    \E a, b, c \in servedBodies :
        /\ a.cj = b.cj /\ a.n # b.n /\ a.fresh # b.fresh
        /\ c.cj # a.cj

\* C24: decrypting the output of encrypt with the same key, nonce base and
\* counter gives the plaintext back; with a different counter it is an error
\* and no data.
C24_RoundTrip ==
    call.fn = "round_trip" =>
        IF call.args.dcounter = call.args.counter
        THEN call.ret.dec.ok /\ call.ret.dec.data = call.args.plaintext
        ELSE ~call.ret.dec.ok /\ call.ret.dec.data = << >>

\* two bytes encrypted under counter 256 are not the plaintext and decrypt to it
C24_Witness ==
    /\ call.fn = "round_trip"
    /\ call.args.counter = 256 /\ call.args.dcounter = 256
    /\ Len(call.args.plaintext) = 2
    /\ call.ret.ct.body # call.args.plaintext
    /\ call.ret.dec.data = call.args.plaintext

\* the name has a piece ".." between separators or the ends of the name
HasParentDir(name) ==
    \E i \in 1 .. (Len(name) - 1) :
        /\ name[i] = "." /\ name[i + 1] = "."
        /\ (i = 1 \/ name[i - 1] = "/")
        /\ (i + 1 = Len(name) \/ name[i + 2] = "/")

Dangerous(name) ==
    \/ Len(name) = 0
    \/ contains(name, "NUL")
    \/ HasParentDir(name)
    \/ name[1] = "/"

\* C28: validate_path and validate_filename reject every name that is empty,
\* contains NUL, has a parent-directory component or is absolute,
\* validate_filename rejects every name containing '/' or '\', and a receive
\* manifest with a name of the first kind is answered BadRequest, is not
\* accepted and creates no file.
C28_PathSafety ==
    /\ call.fn = "validate" =>
          /\ Dangerous(call.args.name) =>
                call.ret.path # "Ok" /\ call.ret.filename # "Ok"
          /\ (contains(call.args.name, "/") \/ contains(call.args.name, "\\")) =>
                call.ret.filename # "Ok"
    /\ (call.fn = "set_manifest" /\ Dangerous(call.args.name)) =>
          /\ call.ret.resp = "BadRequest"
          /\ ~call.ret.has_manifest
          /\ call.ret.disk = << >>

\* "a/.." is rejected by both for its parent-directory component
C28_Witness ==
    /\ call.fn = "validate"
    /\ call.args.name = <<"a", "/", ".", ".">>
    /\ call.ret.path = "ContainsParentDir"
    /\ call.ret.filename = "ContainsParentDir"

\* every chunk of the uploaded file has been written at least once
AllArrived ==
    \A k \in RxChunkIdxs : \E i \in 1 .. Len(rx.order) : rx.order[i] = <<0, k>>

\* C25: whatever the order of delivery, an accepted chunk (0, cj) is on disk at
\* offset cj * chunk_size, and once every chunk has arrived the file has the
\* manifest's size and the sender's bytes.
C25_PositionalIndependence ==
    /\ [](AllArrived =>
            Len(rx.disk[1]) = RxFileSize /\ rx.disk[1] = RxFileData)
    /\ [][\A cj \in RxChunkIdxs, k \in RxChunkIdxs, t \in BOOLEAN :
            (RxWriteChunk(cj, k, t) /\ rx'.resp = "Ok") =>
                SubSeq(rx'.disk[1], cj * ChunkSize + 1,
                       cj * ChunkSize + Len(SenderChunk(cj))) = SenderChunk(cj)]_vars

\* the chunks arrived in the order (0,2), (0,0), (0,1) and the file is the sender's
C25_Witness ==
    /\ rx.order = <<<<0, 2>>, <<0, 0>>, <<0, 1>>>>
    /\ rx.disk[1] = RxFileData

\* C26: a chunk whose ciphertext fails authentication is answered BadRequest,
\* and the files on disk, chunks_received and the progress stay as they were.
C26_TamperedChunkRejected ==
    [][\A cj \in RxChunkIdxs, k \in RxChunkIdxs, t \in BOOLEAN :
          (RxWriteChunk(cj, k, t) /\ (t \/ k # cj)) =>
              /\ rx'.resp = "BadRequest"
              /\ rx'.disk = rx.disk
              /\ rx'.chunks_received = rx.chunks_received
              /\ rx'.progress = rx.progress]_vars

\* a chunk was rejected after two chunks had been written
C26_Witness ==
    /\ rx.req = <<"chunk", 0, 1, FALSE>>
    /\ rx.resp = "BadRequest"
    /\ rx.chunks_received = 2
    /\ Len(rx.order) = 2

\* C27: complete_transfer answers BadRequest and leaves the session as it is
\* while chunks_received is below total_chunks, and the session is Completed
\* only when chunks_received has reached total_chunks.
C27_CompletionGated ==
    /\ [](rx.session = "Completed" => rx.chunks_received >= rx.total_chunks)
    /\ [][(RxComplete /\ rx.chunks_received < rx.total_chunks) =>
            /\ rx'.resp = "BadRequest"
            /\ rx'.session = rx.session
            /\ rx'.session # "Completed"]_vars

\* the upload completed after its three chunks were received
C27_Witness ==
    /\ rx.session = "Completed"
    /\ rx.total_chunks = 3
    /\ rx.chunks_received = 3
    /\ AllArrived

\* C29: all clones of a SendAppState handle read the same total_chunks, the
\* same dedup marks and the same chunks_sent, and a value stored through one
\* handle is what every handle reads afterwards.
C29_ClonesShareState ==
    /\ [](\A g, h \in 1 .. Len(clones.handles) :
             /\ deref(clones, g).total_chunks = deref(clones, h).total_chunks
             /\ deref(clones, g).sent_chunks = deref(clones, h).sent_chunks
             /\ deref(clones, g).chunks_sent = deref(clones, h).chunks_sent)
    /\ [][\A h \in 1 .. MaxClones, n \in {0, 9} :
            StoreTotal(h, n) =>
                \A g \in 1 .. Len(clones'.handles) : deref(clones', g).total_chunks = n]_vars

\* three handles; 9 was stored as total_chunks, a chunk marked and counted
C29_Witness ==
    /\ Len(clones.handles) = MaxClones
    /\ \A h \in 1 .. Len(clones.handles) :
          /\ deref(clones, h).total_chunks = 9
          /\ deref(clones, h).sent_chunks # {}
          /\ deref(clones, h).chunks_sent > 0

\* C30: with_timeout returns Ok only for a future that completed by the
\* deadline, never Elapsed for a future that completes before the deadline,
\* never Ok for one that completes after it or not at all, and every call
\* that was started returns.
C30_StartupBounded ==
    /\ [](timer.state = "Ok" =>
            timer.done_at # Never /\ timer.done_at <= timer.duration)
    /\ [](timer.state = "Elapsed" =>
            timer.done_at = Never \/ timer.done_at > timer.duration)
    /\ [](timer.state \in {"Ok", "Elapsed"} => timer.clock <= timer.duration)
    /\ (timer.state = "pending" ~> timer.state \in {"Ok", "Elapsed"})

\* the startup timeout expired on a future that never completes
C30_Witness ==
    /\ timer.state = "Elapsed"
    /\ timer.duration = StartupTimeout
    /\ timer.done_at = Never
    /\ timer.clock = StartupTimeout

\* C31: chunk bounds are validated before the dedup marker is taken: the
\* handler of a chunk request marks the pair and increments the progress only
\* for a pair inside the manifest (file index below the number of files, chunk
\* start inside the file), so a request rejected as out of range has added
\* nothing to sent_chunks and has not incremented progress.
C31_BoundsBeforeMarker ==
    [][\A h \in SeqSlots :
          /\ SendMark(h) => (PairOf(h) \in ValidPairs /\ sent_chunks' \subseteq ValidPairs)
          /\ SendInc(h) => PairOf(h) \in ValidPairs]_vars

\* the chunk request in slot h was for a pair of the manifest and failed after
\* the bounds checks: at the open, the read or the encryption
FailedInRange(h) ==
    /\ Done(h, "chunk")
    /\ PairOf(h) \in ValidPairs
    /\ res[h].status = StatusCode(FromAnyhow)

\* C32: when a first request for a pair of the manifest fails at the file
\* open, the read or the encryption, the failing step leaves the session, the
\* dedup set and the progress as they are, so the marker stays set and the
\* increment is kept; a request that finds the marker set is a retry and goes
\* on without marking or incrementing; the progress of a file equals the
\* number of its marked pairs once the increments in flight are done.
C32_AtMostOnceOnFailure ==
    /\ [](\A i \in FileIdxs :
            progCount[i] + Cardinality({h \in AllSlots : pc[h] = "s_inc" /\ req[h].fi = i})
                = Cardinality({p \in sent_chunks : p[1] = i}))
    /\ [][\A h \in AllSlots :
            /\ ((SendInsert(h) \/ SendRead(h)) /\ ~res'[h].ok) =>
                  /\ UNCHANGED <<sessVars, sent_chunks, progCount>>
                  /\ PairOf(h) \in sent_chunks'
                  /\ progCount'[req[h].fi] >= 1
            /\ (SendCheck(h) /\ PairOf(h) \in sent_chunks) =>
                  (req'[h].is_retry /\ pc'[h] = "s_open")]_vars

\* the first request for (0, 1) failed with its marker set, the retry was
\* served as a retry, and the pair is counted once
C32_Witness ==
    \E h, g \in AllSlots :
        /\ h # g
        /\ FailedInRange(h) /\ ~req[h].is_retry /\ PairOf(h) = <<0, 1>>
        /\ Done(g, "chunk") /\ PairOf(g) = <<0, 1>> /\ req[g].is_retry /\ res[g].ok
        /\ sent_chunks = {<<0, 1>>}
        /\ progCount[0] = 1
        /\ sessState = "Claimed"

\* C33: the send chunk handler holds no lock while it performs file I/O or
\* encryption: the step that opens the file and the step that reads and
\* encrypts the chunk are taken by a handler that holds neither a registry
\* entry lock nor the pool mutex.
C33_NoLockAcrossIO ==
    [][\A h \in AllSlots :
          (SendInsert(h) \/ SendRead(h)) => LocksHeld(h) = {}]_vars

\* C34: the registry holds an entry only for file indices that were requested
\* and whose open succeeded (a failed open inserts nothing); the handle stored
\* for an index is never replaced or removed by a handler, also when several
\* first requests for the index run concurrently, so there is one handle per
\* index until cleanup; transfer_count() is the number of entries and is 0
\* after cleanup.
C34_OneHandlePerFile ==
    /\ [](/\ DOMAIN file_handles \subseteq {p[1] : p \in requested} \cap FileIdxs
          /\ transfer_count = Cardinality({i \in FileIdxs : contains_key(file_handles, i)}))
    /\ [][/\ Cleanup => transfer_count' = 0
          /\ ~Cleanup =>
                \A i \in DOMAIN file_handles :
                    contains_key(file_handles', i) /\ file_handles'[i] = file_handles[i]
          /\ \A h \in AllSlots :
                /\ (SendInsert(h) /\ ~res'[h].ok /\ pc'[h] = "done") =>
                      UNCHANGED file_handles
                /\ (SendInsert(h) /\ pc'[h] = "s_proc") =>
                      /\ ~contains_key(file_handles, req[h].fi)
                      /\ transfer_count' = transfer_count + 1]_vars

\* two first requests for file 0 are in flight together: one opened the file,
\* the other got the same handle, and the registry has one entry
C34_Witness ==
    \E h, g \in AllSlots :
        /\ h # g
        /\ pc[h] = "s_read" /\ pc[g] = "s_read"
        /\ ~req[h].is_retry /\ ~req[g].is_retry
        /\ req[h].fi = 0 /\ req[g].fi = 0
        /\ contains_key(file_handles, 0) /\ file_handles[0] = h
        /\ transfer_count = 1

\* the chunk indices process_chunk accepts for the file of the call
Accepted == {j \in DOMAIN call.ret : call.ret[j].ok}

\* C35: for every chunk j of a file that passes the bounds check,
\* start = j * chunk_size and the length read is
\* min(start + chunk_size, size) - start, so 1 <= length <= chunk_size; only
\* the last chunk can be shorter than chunk_size; the accepted chunks are
\* exactly the ceil(size / chunk_size) chunks of the file and their lengths
\* add up to the file size.
C35_ChunkSlicing ==
    call.fn = "slice" =>
        LET size == call.args.file_size
            cs == call.args.chunk_size
            lens == [j \in 1 .. Cardinality(Accepted) |-> call.ret[j - 1].chunk_len]
        IN  /\ Accepted = {j \in 0 .. size : j * cs < size}
            /\ Accepted = 0 .. (div_ceil(size, cs) - 1)
            /\ \A j \in Accepted :
                  /\ call.ret[j].start = j * cs
                  /\ call.ret[j].chunk_len = Min(j * cs + cs, size) - j * cs
                  /\ call.ret[j].chunk_len >= 1
                  /\ call.ret[j].chunk_len <= cs
                  /\ call.ret[j].chunk_len < cs => (j + 1) \notin Accepted
            /\ SumSeq(lens) = size

\* a file of two full chunks and a last chunk of one byte
C35_Witness ==
    /\ call.fn = "slice"
    /\ call.args.file_size = 2 * call.args.chunk_size + 1
    /\ call.args.chunk_size > 1
    /\ Accepted = {0, 1, 2}
    /\ call.ret[2].chunk_len = 1

\* C36: a claim on a Completed session returns false for every token and
\* client id, the client that had claimed the session included, and leaves
\* the session Completed and bound to its owner.
C36_ClaimAfterComplete ==
    [][\A h \in AllSlots, c \in Creds :
          (ClaimStep(h, c[1], c[2]) /\ sessState = "Completed") =>
              /\ ~Granted(h)'
              /\ ~res'[h].ok
              /\ sessState' = "Completed"
              /\ UNCHANGED sessOwner]_vars

\* the owner's claim was refused: the session had been completed
C36_Witness ==
    /\ sessState = "Completed"
    /\ sessOwner = ClientA
    /\ \E h \in AllSlots :
          /\ Done(h, "claim")
          /\ req[h].tok = SessionToken
          /\ req[h].cid = ClientA
          /\ ~res[h].ok

\* C37: the dedup set only ever contains chunk positions of the manifest:
\* every pair in sent_chunks has a file index below the number of files and a
\* chunk index below that file's chunk count, so unique_chunks_sent() never
\* exceeds total_chunks.
C37_DedupSetValid ==
    /\ \A p \in sent_chunks :
          /\ p[1] \in FileIdxs
          /\ p[2] < div_ceil(get_file(p[1]), ChunkSize)
    /\ unique_chunks_sent <= get_total_chunks

\* C38: the pool is bounded on retention: whatever the handlers take, wrap
\* and drop, the free list never holds more than the pool_size buffers the
\* pool was created with.
C38_RetentionBounded == Len(buffers) <= PoolSize

\* C39: for a token created by create_session at most one
\* validate_and_mark_used(token) ever returns the file path, whatever the
\* interleaving of the calls; the path returned is the session's; every other
\* call, and every call with an unknown token, returns None; is_valid(token)
\* is true exactly for a created token no call has been granted yet, and
\* is_valid never changes the store.
C39_OneTimeToken ==
    /\ [](\A t \in StoreTokens :
            /\ dlHist.granted[t] <= 1
            /\ dlHist.granted[t] = 1 <=> (t \in DOMAIN sessions /\ sessions[t].used))
    /\ [][\A d \in Callers :
            /\ StoreMark(d) =>
                  /\ dlHist.granted[dl[d].token] = 0
                  /\ dl'[d].ret = sessions[dl[d].token].file_path
            /\ (StoreCheck(d) /\
                    (dl[d].token \notin DOMAIN sessions \/ dlHist.granted[dl[d].token] > 0)) =>
                  (dl'[d].pc = "done" /\ dl'[d].ret = "None" /\ UNCHANGED sessions)
            /\ StoreRead(d) =>
                  /\ UNCHANGED sessions
                  /\ dl'[d].ret <=> ( /\ dl[d].token \in DOMAIN sessions
                                      /\ dlHist.granted[dl[d].token] = 0 )]_vars

\* two calls for the created token have returned: one got the path, the other None
C39_Witness ==
    /\ dl["d1"].op = "validate" /\ dl["d2"].op = "validate"
    /\ dl["d1"].pc = "done" /\ dl["d2"].pc = "done"
    /\ dl["d1"].token = 1 /\ dl["d2"].token = 1
    /\ 1 \in DOMAIN sessions
    /\ dl["d1"].ret = "None"
    /\ dl["d2"].ret = sessions[1].file_path
    /\ dlHist.granted[1] = 1

\* C40: download_handler consumes the token before it opens the file: once a
\* download of a token was answered 500 (the open or the metadata failed) the
\* token is marked used, no download of that token has served or ever serves
\* data, and every later validation of it is refused (403 for a download).
C40_FailedDownloadBurnsToken ==
    /\ [](\A t \in dlHist.failed :
            /\ t \in DOMAIN sessions /\ sessions[t].used
            /\ t \notin dlHist.served
            /\ \A d \in Callers : dl[d].token = t => dl[d].status # 200)
    /\ [][\A d \in Callers :
            (StoreCheck(d) /\ dl[d].token \in dlHist.failed /\ dl[d].op = "download") =>
                (dl'[d].pc = "done" /\ dl'[d].status = 403)]_vars

\* the download failed with 500 and the retry with the same token got 403
C40_Witness ==
    /\ dl["d1"].op = "download" /\ dl["d2"].op = "download"
    /\ dl["d1"].pc = "done" /\ dl["d2"].pc = "done"
    /\ dl["d1"].token = 1 /\ dl["d2"].token = 1
    /\ dl["d1"].status = 500
    /\ dl["d2"].status = 403
    /\ dlHist.failed = {1}
    /\ dlHist.served = {}

=============================================================================
